---- MODULE Spec2Model ----
(***************************************************************************)
(* Streamflow model validation: the gauge fetch routines, the pipelines    *)
(* that build the comparison table, and the metrics engine with its        *)
(* callers.  Three machines share this module; each has its own            *)
(* specification (SpecGauge, SpecPipe, SpecMetrics) and leaves the other   *)
(* machines' variables unchanged.                                          *)
(*                                                                         *)
(* Flows are integers.  A date is a day number; a dateTime string is the   *)
(* pair <<day, clock>> and its first 10 characters are the day.            *)
(***************************************************************************)
EXTENDS Integers, Sequences, FiniteSets, TLC

VARIABLES
    \* ---- gauge fetch machine (fetch_usgs_daily, fetch_usgs_batch, fetch_usgs_data)
    routine,     \* which fetch routine is running
    date,        \* the requested date (start_date = end_date = date)
    site_list,   \* the site ids requested
    i,           \* start offset of the batch being requested (range(0, len, batch_size))
    gpc,         \* "request" | "series" | "done" | "raised"
    nseries,     \* series of the current response already handled
    results,     \* dict site_code -> flow (the dict routines)
    reported,    \* for each key of results: the day the source reported the stored value with
    all_data,    \* list of records (fetch_usgs_daily)
    requested,   \* the batches requested so far, in order
    unread,      \* an entry of a response was never visited: an entry before it raised
    \* ---- pipeline machine (the mains of the scripts, run_validation, run_three_way_validation)
    pipeline,      \* which pipeline is running
    target_date,   \* TEST_DATE of a script, the target_date argument of a function
    pour_points,   \* the features of pour_points.geojson
    ppc,           \* the step of Steps(pipeline) to run next
    outcome,       \* "running" | "saved" | "returned" | "failed" | "aborted"
    hpp_daily,     \* dict UUID -> the model's prediction for the target date
    usgs_data,     \* what the gauge fetch returned: a dict, or the list of records
    comid_mapping, \* dict site_id (or crosswalk key) -> comid
    nwm_data,      \* dict comid (site_id in state_validation) -> reach-model value
    rows,          \* the comparison table
    \* ---- metrics machine (a caller of the metrics engine and its report)
    caller,        \* the place that calls the engine
    frame,         \* the rows it passes: those with both values present
    mpc,           \* "input" | "called" | "skipped" | "reported" | "crashed"
    metrics,       \* what the engine returned
    \* ---- calculate_metrics called on two arrays
    arrays,        \* the (observed, predicted) elements passed, in order
    cpc,           \* "input" | "called"
    calc,          \* the dict calculate_metrics returned
    \* ---- resolver machine (build_crosswalk, match_coords_to_comid, get_usgs_to_comid_mapping)
    resolver,      \* which resolver is running
    points,        \* the sites to resolve, each with the reaches of river_edges around it
    nsite,         \* sites already handled in the current run
    xwalk,         \* the dict under construction: crosswalk / mapping, site -> comid
    failed_sites,  \* the list `failed` of build_crosswalk
    runs,          \* what the runs finished so far returned
    \* ---- lookup machine (fetch_nwm_archive.map_usgs_to_comid and its thread pool)
    usgs_site_ids, \* the list of site ids passed
    nldi,          \* the response of the identifier service for each site id
    max_workers,   \* the size of the pool
    futures,       \* for each submitted lookup: "pending" | "running" | "done", and its result
    collected,     \* the futures as_completed has yielded so far
    site_comid,    \* the dict `mapping` under construction
    lpc            \* "collecting" | "returned" | "raised"

gaugeVars == <<routine, date, site_list, i, gpc, nseries, results, reported, all_data,
               requested, unread>>

pipeVars == <<pipeline, target_date, pour_points, ppc, outcome, hpp_daily, usgs_data,
              comid_mapping, nwm_data, rows>>

metricVars == <<caller, frame, mpc, metrics>>

calcVars == <<arrays, cpc, calc>>

resolverVars == <<resolver, points, nsite, xwalk, failed_sites, runs>>

lookupVars == <<usgs_site_ids, nldi, max_workers, futures, collected, site_comid, lpc>>

VARIABLES
    coords,      \* the (lon, lat) of a pour point, in whole degrees
    labels       \* what the calls of the two copies of get_state returned, in order

stateVars == <<coords, labels>>

vars == <<gaugeVars, pipeVars, metricVars, calcVars, resolverVars, lookupVars, stateVars>>

-----------------------------------------------------------------------------
(* Bounds of the model *)

\* site ids are 1..MaxSites
MaxSites == 3
\* at most this many series are read from one response
MaxSeries == 2
\* fetch_usgs_daily stops being fed readings once all_data holds this many records
MaxRecords == 2
\* sites per request: 100 in the dict routines, the chunk_size argument of
\* fetch_usgs_daily (100 by default, 50 from the callers); scaled down so
\* that a request list of MaxSites ids spans more than one batch
batch_size == 2
\* features in pour_points.geojson
MaxFeatures == 2
\* rows of a table handed to the metrics engine
MaxPairs == 11
\* the longest arrays handed to calculate_metrics directly
MaxCalc == 3
\* the most sites a resolver is run on
MaxCatalog == 2
\* the longest list of site ids looked up, and the largest pool
MaxLookups == 2
MaxWorkers == 2

SiteIds == 1..MaxSites
\* two days: a requested day and another one
Dates == {14, 15}

-----------------------------------------------------------------------------
(* The gauge service's JSON *)

\* a JSON "value" entry: a numeric string, a non-numeric string, or null
Num(n) == [tag |-> "num", num |-> n]
Text == [tag |-> "text", num |-> 0]
Null == [tag |-> "null", num |-> 0]

\* one reading {"value": ..., "dateTime": ...}; hasDate = FALSE: no dateTime key
Reading(v, has, day) == [value |-> v, hasDate |-> has, dateTime |-> <<day, 0>>]

NumReadings == {Reading(Num(5), TRUE, d) : d \in Dates}
Readings ==
    NumReadings
    \cup {Reading(Num(-1), TRUE, d) : d \in Dates}
    \cup {Reading(Text, TRUE, d) : d \in Dates}
    \cup {Reading(Num(5), FALSE, 0), Reading(Null, TRUE, 15)}

\* the "values" list of a timeSeries: a list of value sets, each a list of readings
ValueShapes ==
    {<<>>, << <<>> >>}
    \cup {<< <<r>> >> : r \in Readings}
    \cup {<< <<r1, r2>> >> : r1 \in NumReadings, r2 \in NumReadings}
    \cup {<< <<r1>>, <<r2>> >> : r1 \in NumReadings, r2 \in NumReadings}

\* the timeSeries entries the service may send for a batch of sites
SeriesOf(batch) == [site : batch, values : ValueShapes]

\* dateTime[:10]
Prefix10(dateTime) == dateTime[1]

-----------------------------------------------------------------------------
(* What one timeSeries entry does in each routine *)

Skip == [kind |-> "skip", flow |-> 0, day |-> 0]
Raise == [kind |-> "raise", flow |-> 0, day |-> 0]
Store(f, d) == [kind |-> "store", flow |-> f, day |-> d]

\* float(values[0]['value']) succeeds on a numeric string only
FloatOk(v) == v.tag = "num"

\* state_validation.fetch_usgs_batch, the body of "for series in ts"
fetch_usgs_batch_series(series, d) ==
    IF series.values = <<>> THEN Raise                \* [..][0]: IndexError
    ELSE LET values == series.values[1] IN
         IF values = <<>> THEN Skip
         ELSE IF ~FloatOk(values[1].value) THEN Raise
         ELSE IF values[1].value.num >= 0
              THEN Store(values[1].value.num, Prefix10(values[1].dateTime))
              ELSE Skip

\* three_way_validation.fetch_usgs_data, the body of "for series in ts"
fetch_usgs_data_series(series, d) ==
    IF series.values = <<>> THEN Raise
    ELSE LET values == series.values[1] IN
         IF values = <<>> THEN Skip
         ELSE IF ~FloatOk(values[1].value) THEN Raise
         ELSE IF values[1].value.num >= 0
              THEN Store(values[1].value.num, Prefix10(values[1].dateTime))
              ELSE Skip

\* the date test left out: the first reading is taken whatever its date
value_date_unchecked(r, d) == TRUE

\* the date test of state_validation_v2.fetch_usgs_batch:
\* values[0].get('dateTime', '')[:10] == date
value_date_matches(r, d) == r.hasDate /\ Prefix10(r.dateTime) = d

\* state_validation_v2.fetch_usgs_batch, the body of "for series in ts"
fetch_usgs_batch_v2_series(series, d) ==
    IF series.values = <<>> THEN Raise
    ELSE LET values == series.values[1] IN
         IF values = <<>> THEN Skip
         ELSE IF ~value_date_matches(values[1], d) THEN Skip
         ELSE IF ~FloatOk(values[1].value) THEN Raise
         ELSE IF values[1].value.num >= 0
              THEN Store(values[1].value.num, Prefix10(values[1].dateTime))
              ELSE Skip

\* all readings of a timeSeries in the order the two nested loops of
\* fetch_usgs_daily visit them
RECURSIVE Flatten(_)
Flatten(values) ==
    IF values = <<>> THEN <<>> ELSE Head(values) \o Flatten(Tail(values))

\* fetch_usgs_daily, the loops over one timeSeries: the records appended, and
\* whether a KeyError (no dateTime) escaped.  A null value is skipped; a
\* non-numeric one is dropped by the inner except (ValueError, TypeError).
RECURSIVE daily_readings(_, _)
daily_readings(site_id, rs) ==
    IF rs = <<>> THEN [records |-> <<>>, raised |-> FALSE]
    ELSE LET val == Head(rs) IN
         IF val.value.tag = "null" THEN daily_readings(site_id, Tail(rs))
         ELSE IF ~val.hasDate THEN [records |-> <<>>, raised |-> TRUE]
         ELSE IF ~FloatOk(val.value) THEN daily_readings(site_id, Tail(rs))
         ELSE LET rest == daily_readings(site_id, Tail(rs)) IN
              [records |-> <<[site_id |-> site_id,
                              date |-> Prefix10(val.dateTime),
                              discharge_cfs |-> val.value.num]>> \o rest.records,
               raised |-> rest.raised]

fetch_usgs_daily_series(ts) == daily_readings(ts.site, Flatten(ts.values))

-----------------------------------------------------------------------------
(* The gauge fetch machine: one step per request and per timeSeries entry *)

Routines == {"fetch_usgs_daily", "fetch_usgs_batch", "fetch_usgs_data", "fetch_usgs_batch_v2"}

EmptyDict == [k \in {} |-> 0]

\* d[k] = v
DictSet(d, k, v) == [x \in DOMAIN d \cup {k} |-> IF x = k THEN v ELSE d[x]]

\* site_list[i:i+batch_size], as the set of its site ids
Batch(list, start) ==
    {list[k] : k \in {k \in 1..Len(list) : start < k /\ k <= start + batch_size}}

\* what one timeSeries entry does in dict routine r
DictSeries(r, series, d) ==
    CASE r = "fetch_usgs_batch" -> fetch_usgs_batch_series(series, d)
      [] r = "fetch_usgs_data" -> fetch_usgs_data_series(series, d)
      [] OTHER -> fetch_usgs_batch_v2_series(series, d)

GaugeInit ==
    /\ routine \in Routines
    /\ date \in Dates
    /\ site_list \in {[k \in 1..n |-> k] : n \in 0..MaxSites}
    /\ i = 0
    /\ gpc = IF site_list = <<>> THEN "done" ELSE "request"
    /\ nseries = 0
    /\ results = EmptyDict
    /\ reported = EmptyDict
    /\ all_data = <<>>
    /\ requested = <<>>
    /\ unread = FALSE

\* the loop goes on to the next batch, or ends
NextBatch ==
    /\ i' = i + batch_size
    /\ gpc' = IF i + batch_size >= Len(site_list) THEN "done" ELSE "request"
    /\ nseries' = 0

\* requests.get raises, or the response is not ok: the batch is skipped
RequestFails ==
    /\ gpc = "request"
    /\ requested' = Append(requested, i)
    /\ NextBatch
    /\ UNCHANGED <<routine, date, site_list, results, reported, all_data, unread>>

\* the response arrives and parses as JSON
RequestOk ==
    /\ gpc = "request"
    /\ requested' = Append(requested, i)
    /\ gpc' = "series"
    /\ nseries' = 0
    /\ UNCHANGED <<routine, date, site_list, i, results, reported, all_data, unread>>

\* one timeSeries entry of the response, in a dict routine; an exception is
\* caught outside the loop over the series, so it ends the batch
DictSeriesStep ==
    /\ gpc = "series"
    /\ routine # "fetch_usgs_daily"
    /\ nseries < MaxSeries
    /\ \E series \in SeriesOf(Batch(site_list, i)) :
         LET out == DictSeries(routine, series, date) IN
         /\ results' = IF out.kind = "store"
                       THEN DictSet(results, series.site, out.flow) ELSE results
         /\ reported' = IF out.kind = "store"
                        THEN DictSet(reported, series.site, out.day) ELSE reported
         /\ IF out.kind = "raise"
            THEN \* the entries of the response after this one, if it has
                 \* any, are not visited
                 /\ NextBatch
                 /\ \E more \in 0..(MaxSeries - nseries - 1) : unread' = (unread \/ more > 0)
            ELSE /\ nseries' = nseries + 1
                 /\ UNCHANGED <<i, gpc, unread>>
    /\ UNCHANGED <<routine, date, site_list, all_data, requested>>

\* one timeSeries entry of the response, in fetch_usgs_daily; a KeyError is
\* not a RequestException and leaves the function
DailySeriesStep ==
    /\ gpc = "series"
    /\ routine = "fetch_usgs_daily"
    /\ nseries < MaxSeries
    /\ \E ts \in SeriesOf(Batch(site_list, i)) :
         LET out == fetch_usgs_daily_series(ts) IN
         /\ Len(all_data) + Len(out.records) <= MaxRecords
         /\ all_data' = all_data \o out.records
         /\ IF out.raised
            THEN /\ gpc' = "raised"
                 /\ UNCHANGED <<i, nseries>>
            ELSE /\ nseries' = nseries + 1
                 /\ UNCHANGED <<i, gpc>>
    /\ UNCHANGED <<routine, date, site_list, results, reported, requested, unread>>

\* the response has no further timeSeries entry
EndResponse ==
    /\ gpc = "series"
    /\ NextBatch
    /\ UNCHANGED <<routine, date, site_list, results, reported, all_data, requested, unread>>

\* what the routine returns once gpc = "done": the dict, or the table of all_data
GaugeReturned == gpc = "done"

-----------------------------------------------------------------------------
(* The whole fetch routines, as the pipelines call them: one response per   *)
(* batch, folded over the batches of the request list                      *)

\* a response that failed (exception, or not ok)
Failed == [ok |-> FALSE, series |-> <<>>]

\* the loop "for series in ts" of a dict routine; an exception ends it
RECURSIVE dict_response(_, _, _, _)
dict_response(r, ss, d, acc) ==
    IF ss = <<>> THEN acc
    ELSE LET out == DictSeries(r, Head(ss), d) IN
         IF out.kind = "raise" THEN acc
         ELSE dict_response(r, Tail(ss), d,
                  IF out.kind = "store" THEN DictSet(acc, Head(ss).site, out.flow) ELSE acc)

\* fetch_usgs_batch / fetch_usgs_data (routine r) from batch offset start on
RECURSIVE fetch_usgs_dict(_, _, _, _, _, _)
fetch_usgs_dict(r, list, start, d, resps, acc) ==
    IF start >= Len(list) THEN acc
    ELSE fetch_usgs_dict(r, list, start + batch_size, d, Tail(resps),
             IF Head(resps).ok THEN dict_response(r, Head(resps).series, d, acc) ELSE acc)

\* the loop "for ts in data[value][timeSeries]" of fetch_usgs_daily
RECURSIVE daily_response(_, _)
daily_response(ss, acc) ==
    IF ss = <<>> THEN [records |-> acc, raised |-> FALSE]
    ELSE LET out == fetch_usgs_daily_series(Head(ss)) IN
         IF out.raised THEN [records |-> acc \o out.records, raised |-> TRUE]
         ELSE daily_response(Tail(ss), acc \o out.records)

\* fetch_usgs_daily from chunk offset start on: the table, or raised
RECURSIVE fetch_usgs_daily(_, _, _, _)
fetch_usgs_daily(list, start, resps, acc) ==
    IF start >= Len(list) THEN [records |-> acc, raised |-> FALSE]
    ELSE IF ~Head(resps).ok
         THEN fetch_usgs_daily(list, start + batch_size, Tail(resps), acc)
         ELSE LET out == daily_response(Head(resps).series, acc) IN
              IF out.raised THEN out
              ELSE fetch_usgs_daily(list, start + batch_size, Tail(resps), out.records)

\* sequences over S of length at most n
RECURSIVE SeqsUpTo(_, _)
SeqsUpTo(S, n) ==
    IF n = 0 THEN {<<>>}
    ELSE LET shorter == SeqsUpTo(S, n - 1) IN
         shorter \cup {Append(q, x) : q \in {q \in shorter : Len(q) = n - 1}, x \in S}

\* the responses a pipeline's request for one batch may get: it fails, or it
\* carries up to MaxSeries series, each with one numeric reading
PipeResponses(batch) ==
    {Failed} \cup
    {[ok |-> TRUE, series |-> ss] :
        ss \in SeqsUpTo([site : batch, values : {<< <<r>> >> : r \in NumReadings}], MaxSeries)}

\* one response per batch of list, from offset start on
RECURSIVE RespSeqs(_, _)
RespSeqs(list, start) ==
    IF start >= Len(list) THEN {<<>>}
    ELSE {<<r>> \o rest : r \in PipeResponses(Batch(list, start)),
                          rest \in RespSeqs(list, start + batch_size)}

-----------------------------------------------------------------------------
(* The pipelines' data *)

\* a missing value (None, NaN, no key) and a present one
None == <<>>
Some(v) == <<v>>

\* TEST_DATE = '2024-07-15' of the three scripts
TEST_DATE == 15
\* the day the "flow" property of pour_points.geojson holds the model's
\* value for: load_pour_points reads it as model_flow_july15
JULY15 == 15
\* CMS_TO_CFS = 35.3147.  Reach-model flows in cfs are carried in units of
\* 1/10000 cfs, so that the product with a whole number of cms is exact:
\* the factor is then 353147.
CMS_TO_CFS == 353147

\* reach ids; they overlap the site ids
Comids == {1, 2}

TXPoint == <<-100, 30>>
CAPoint == <<-120, 37>>
OtherPoint == <<-90, 45>>

\* get_state with the edges of the boxes counted as inside
get_state_closed(lon, lat) ==
    IF -107 <= lon /\ lon <= -93 /\ 25 <= lat /\ lat <= 37 THEN "TX"
    ELSE IF -125 <= lon /\ lon <= -114 /\ 32 <= lat /\ lat <= 42 THEN "CA"
    ELSE IF -85 <= lon /\ lon <= -75 /\ 33 <= lat /\ lat <= 37 THEN "NC"
    ELSE "Other"

\* state_validation.get_state
get_state(lon, lat) ==
    IF -107 < lon /\ lon < -93 /\ 25 < lat /\ lat < 37 THEN "TX"
    ELSE IF -125 < lon /\ lon < -114 /\ 32 < lat /\ lat < 42 THEN "CA"
    ELSE IF -85 < lon /\ lon < -75 /\ 33 < lat /\ lat < 37 THEN "NC"
    ELSE "Other"

\* state_validation_v2.get_state
get_state_v2(lon, lat) ==
    IF -107 < lon /\ lon < -93 /\ 25 < lat /\ lat < 37 THEN "TX"
    ELSE IF -125 < lon /\ lon < -114 /\ 32 < lat /\ lat < 42 THEN "CA"
    ELSE IF -85 < lon /\ lon < -75 /\ 33 < lat /\ lat < 37 THEN "NC"
    ELSE "Other"

\* the three boxes of get_state: west, east, south and north edge
StateBoxes ==
    [TX |-> [w |-> -107, e |-> -93, s |-> 25, n |-> 37],
     CA |-> [w |-> -125, e |-> -114, s |-> 32, n |-> 42],
     NC |-> [w |-> -85, e |-> -75, s |-> 33, n |-> 37]]

\* the condition of the branch of get_state for box b
satisfies_box(b, lon, lat) ==
    /\ StateBoxes[b].w < lon /\ lon < StateBoxes[b].e
    /\ StateBoxes[b].s < lat /\ lat < StateBoxes[b].n

\* longitudes and latitudes on, next to and away from the edges of the boxes
LonGrid == {-126, -125, -124, -115, -114, -113, -108, -107, -106, -100,
            -94, -93, -92, -86, -85, -84, -80, -76, -75, -74}
LatGrid == {24, 25, 26, 31, 32, 33, 34, 36, 37, 38, 41, 42, 43}

MaxCalls == 2

StateInit == coords \in LonGrid \X LatGrid /\ labels = <<>>

\* main() of state_validation and of state_validation_v2 classify the
\* coordinates of a feature
ClassifyPoint ==
    /\ Len(labels) < MaxCalls
    /\ labels' = Append(labels, [v1 |-> get_state(coords[1], coords[2]),
                                 v2 |-> get_state_v2(coords[1], coords[2])])
    /\ UNCHANGED coords

Pipelines == {"state_validation", "state_validation_v2", "three_way_validation",
              "run_validation", "run_three_way_validation"}

\* the pipelines whose date is the module constant TEST_DATE
Scripts == {"state_validation", "state_validation_v2", "three_way_validation"}

\* a feature of pour_points.geojson; feature k has UUID 100 + k and, when it
\* has a gauge, site_id k
Feature(k, sid, pt, fl) ==
    [UUID |-> 100 + k, site_id |-> sid, lon |-> pt[1], lat |-> pt[2], flow |-> fl]

\* the features a catalog may hold at position k: the coordinates vary for
\* the pipelines that classify them, the flow property for those that read it
FeaturesAt(pl, k) ==
    CASE pl \in {"state_validation", "state_validation_v2"} ->
            {Feature(k, sid, pt, Some(50)) :
                sid \in {None, Some(k)}, pt \in {TXPoint, CAPoint, OtherPoint}}
      [] pl = "three_way_validation" ->
            {Feature(k, sid, TXPoint, Some(50)) : sid \in {None, Some(k)}}
      [] OTHER ->
            {Feature(k, sid, TXPoint, fl) :
                sid \in {None, Some(k)}, fl \in {None, Some(50)}}

\* all dicts from a subset of K to V
Dicts(K, V) == UNION {[D -> V] : D \in SUBSET K}

\* d.get(k)
Get(d, k) == IF k \in DOMAIN d THEN Some(d[k]) ELSE None

\* the site list built by state_validation.main
sites_v1(features) ==
    LET withId == SelectSeq(features, LAMBDA f : f.site_id # None) IN
    [k \in 1..Len(withId) |->
        [uuid |-> withId[k].UUID, site_id |-> withId[k].site_id[1],
         state |-> get_state(withId[k].lon, withId[k].lat)]]

\* the site list built by state_validation_v2.main
sites_v2(features) ==
    LET withId == SelectSeq(features, LAMBDA f : f.site_id # None) IN
    [k \in 1..Len(withId) |->
        [uuid |-> withId[k].UUID, site_id |-> withId[k].site_id[1],
         state |-> get_state_v2(withId[k].lon, withId[k].lat)]]

\* load_pour_points, then the filter site_id.notna() of run_validation and
\* run_three_way_validation
usgs_sites_of(features) ==
    LET withId == SelectSeq(features, LAMBDA f : f.site_id # None) IN
    [k \in 1..Len(withId) |->
        [uuid |-> withId[k].UUID, site_id |-> withId[k].site_id[1],
         model_flow_july15 |-> withId[k].flow]]

\* uuid_to_site of three_way_validation.main
uuid_to_site_of(features) ==
    LET withId == {k \in 1..Len(features) : features[k].site_id # None} IN
    [u \in {features[k].UUID : k \in withId} |->
        features[CHOOSE k \in withId : features[k].UUID = u].site_id[1]]

\* column c of a table, as a list
Column(table, c) == [k \in 1..Len(table) |-> table[k][c]]

-----------------------------------------------------------------------------
(* The reach-model source.  A value carries, beside the flow the code       *)
(* computed (cfs), where it came from: the raw number, its unit and the day *)
(* the source held it for.                                                  *)

NwmVal(cfs, raw, unit, day) == [cfs |-> cfs, raw |-> raw, unit |-> unit, day |-> day]

\* nwm_df['streamflow_cms'] * CMS_TO_CFS of state_validation_v2.main
flow_cfs_v2(streamflow_cms) == streamflow_cms * CMS_TO_CFS

\* nwm_lookup of state_validation_v2.main; NWM_FILE is the file of TEST_DATE
nwm_lookup_v2(nwm_df) ==
    [c \in DOMAIN nwm_df |-> NwmVal(flow_cfs_v2(nwm_df[c]), nwm_df[c], "cms", TEST_DATE)]

\* fetch_nwm_data with the factor applied to the river_edges flow as well
fetch_nwm_data_all_converted(comids, d, nwm_velocity, river_edges, db_day) ==
    LET first == comids \cap DOMAIN nwm_velocity
        second == (comids \ first) \cap DOMAIN river_edges
    IN  [c \in first \cup second |->
            IF c \in first
            THEN NwmVal(nwm_velocity[c] * CMS_TO_CFS, nwm_velocity[c], "cms", db_day)
            ELSE NwmVal(river_edges[c] * CMS_TO_CFS, river_edges[c], "cfs", db_day)]

\* three_way_validation.fetch_nwm_data: nwm_velocity first (cms, converted in
\* the query), river_edges.flow_cfs for the comids still missing.  The date
\* argument is not used by the function; the tables hold the day db_day.
fetch_nwm_data(comids, d, nwm_velocity, river_edges, db_day) ==
    LET first == comids \cap DOMAIN nwm_velocity
        missing == comids \ first
        second == missing \cap DOMAIN river_edges
    IN  [c \in first \cup second |->
            IF c \in first
            THEN NwmVal(nwm_velocity[c] * CMS_TO_CFS,
                        nwm_velocity[c], "cms", db_day)
            ELSE NwmVal(river_edges[c], river_edges[c], "cfs", db_day)]

\* validate_with_nwm.fetch_nwm_from_db: the rows of nwm_velocity for the
\* comids, with nwm_cfs = streamflow_cms * 35.3147; it takes no date
fetch_nwm_from_db(comids, nwm_velocity, db_day) ==
    IF comids = {} THEN EmptyDict
    ELSE [c \in comids \cap DOMAIN nwm_velocity |->
             NwmVal(nwm_velocity[c] * CMS_TO_CFS,
                    nwm_velocity[c], "cms", db_day)]

\* the per-site query of state_validation.main: gauge_cms[s] is the
\* streamflow_cms of the reach the database finds nearest to gauge s; a row
\* is kept when its flow is truthy
nwm_data_v1(site_ids, gauge_cms, db_day) ==
    [s \in {s \in site_ids \cap DOMAIN gauge_cms :
               gauge_cms[s] * CMS_TO_CFS # 0} |->
        NwmVal(gauge_cms[s] * CMS_TO_CFS, gauge_cms[s], "cms", db_day)]

-----------------------------------------------------------------------------
(* The comparison tables *)

\* a row of a comparison table; model_day is the day the model value is for
Row(uuid, site_id, comid, model, model_day, usgs, nwm) ==
    [uuid |-> uuid, site_id |-> site_id, comid |-> comid, model |-> model,
     model_day |-> model_day, usgs |-> usgs, nwm |-> nwm]

\* the reach-model value looked up by the gauge id instead of the reach id
nwm_flow_by_site_id(site_id, usgs_to_comid, nwm_lookup) == Get(nwm_lookup, site_id)

\* comid = usgs_to_comid.get(site_id); nwm_lookup.get(comid) if comid else None
nwm_flow_v2(site_id, usgs_to_comid, nwm_lookup) ==
    LET comid == Get(usgs_to_comid, site_id) IN
    IF comid # None /\ comid[1] # 0 THEN Get(nwm_lookup, comid[1]) ELSE None

\* state_validation_v2.main, step 5: a row for each site that has a
\* prediction and a gauge value
rows_v2(sites, hpp, usgs, usgs_to_comid, nwm_lookup) ==
    LET kept == SelectSeq(sites, LAMBDA site :
                    site.uuid \in DOMAIN hpp /\ site.site_id \in DOMAIN usgs) IN
    [k \in 1..Len(kept) |->
        Row(kept[k].uuid, kept[k].site_id, Get(usgs_to_comid, kept[k].site_id),
            Some(hpp[kept[k].uuid]), Some(TEST_DATE),
            Some(usgs[kept[k].site_id]),
            nwm_flow_v2(kept[k].site_id, usgs_to_comid, nwm_lookup))]

\* state_validation.main, step 3: the same rows, without a reach-model value yet
rows_v1(sites, hpp, usgs) ==
    LET kept == SelectSeq(sites, LAMBDA site :
                    site.uuid \in DOMAIN hpp /\ site.site_id \in DOMAIN usgs) IN
    [k \in 1..Len(kept) |->
        Row(kept[k].uuid, kept[k].site_id, None,
            Some(hpp[kept[k].uuid]), Some(TEST_DATE),
            Some(usgs[kept[k].site_id]), None)]

\* df['nwm_cfs'] = df['site_id'].map(nwm_data) of state_validation.main
map_nwm_v1(df, nwm) ==
    [k \in 1..Len(df) |-> [df[k] EXCEPT !.nwm = Get(nwm, df[k].site_id)]]

\* valid_uuids of three_way_validation.main, in the order of the crosswalk's keys
RECURSIVE SortedSeq(_)
SortedSeq(S) ==
    IF S = {} THEN <<>>
    ELSE LET m == CHOOSE x \in S : \A y \in S : x <= y IN <<m>> \o SortedSeq(S \ {m})

valid_uuids_of(crosswalk, uuid_to_site) ==
    SortedSeq(DOMAIN crosswalk \cap DOMAIN uuid_to_site)

\* three_way_validation.main: the loop that builds the rows
rows_three_way(valid_uuids, uuid_to_site, crosswalk, hpp_data, usgs, nwm) ==
    LET kept == SelectSeq(valid_uuids, LAMBDA u :
                    u \in DOMAIN hpp_data /\ uuid_to_site[u] \in DOMAIN usgs) IN
    [k \in 1..Len(kept) |->
        Row(kept[k], uuid_to_site[kept[k]], Some(crosswalk[kept[k]]),
            Some(hpp_data[kept[k]]), Some(TEST_DATE),
            Some(usgs[uuid_to_site[kept[k]]]),
            Get(nwm, crosswalk[kept[k]]))]

\* usgs_sites.merge(usgs_data[["site_id", "discharge_cfs"]], on="site_id",
\* how="left"): every site, once per matching gauge record, or once with no
\* gauge value; the model value is the catalog's flow property
RECURSIVE merge_usgs(_, _, _)
merge_usgs(usgs_sites, mapping, usgs) ==
    IF usgs_sites = <<>> THEN <<>>
    ELSE LET site == Head(usgs_sites)
             matches == SelectSeq(usgs, LAMBDA rec : rec.site_id = site.site_id)
             base == Row(site.uuid, site.site_id, Get(mapping, site.site_id),
                         site.model_flow_july15,
                         IF site.model_flow_july15 = None THEN None ELSE Some(JULY15),
                         None, None)
         IN  (IF matches = <<>> THEN <<base>>
              ELSE [k \in 1..Len(matches) |->
                       [base EXCEPT !.usgs = Some(matches[k].discharge_cfs)]])
             \o merge_usgs(Tail(usgs_sites), mapping, usgs)

\* merged.merge(nwm_data[["comid", "nwm_cfs"]], on="comid", how="left"), or
\* merged["nwm_cfs"] = np.nan when no reach-model row came back
merge_nwm(merged, nwm) ==
    [k \in 1..Len(merged) |->
        [merged[k] EXCEPT !.nwm =
            IF merged[k].comid = None THEN None ELSE Get(nwm, merged[k].comid[1])]]

\* run_validation: the rows with both a gauge and a model value
valid_rows(merged) ==
    SelectSeq(merged, LAMBDA row : row.usgs # None /\ row.model # None)

-----------------------------------------------------------------------------
(* The pipeline machine: one step per stage of the running pipeline *)

Steps(pl) ==
    CASE pl = "state_validation" -> <<"hpp", "usgs", "rows", "nwm">>
      [] pl = "state_validation_v2" -> <<"hpp", "usgs", "nwm", "mapping", "rows">>
      [] pl = "three_way_validation" -> <<"mapping", "hpp", "usgs", "nwm", "rows">>
      [] pl = "run_validation" -> <<"usgs", "rows">>
      [] OTHER -> <<"mapping", "usgs", "nwm", "rows">>

AtStep(name) ==
    /\ outcome = "running"
    /\ ppc <= Len(Steps(pipeline))
    /\ Steps(pipeline)[ppc] = name

Catalogs(pl) ==
    {c \in [1..MaxFeatures -> UNION {FeaturesAt(pl, k) : k \in 1..MaxFeatures}] :
        \A k \in 1..MaxFeatures : c[k] \in FeaturesAt(pl, k)}

\* the site table of the running pipeline
Sites ==
    CASE pipeline = "state_validation" -> sites_v1(pour_points)
      [] pipeline = "state_validation_v2" -> sites_v2(pour_points)
      [] OTHER -> usgs_sites_of(pour_points)

Range(q) == {q[k] : k \in DOMAIN q}

CatalogUUIDs == {pour_points[k].UUID : k \in 1..Len(pour_points)}
CatalogSiteIds == Range(Column(Sites, "site_id"))

PipeInit ==
    /\ pipeline \in Pipelines
    /\ target_date \in (IF pipeline \in Scripts THEN {TEST_DATE} ELSE Dates)
    /\ pour_points \in Catalogs(pipeline)
    /\ ppc = 1
    /\ outcome = "running"
    /\ hpp_daily = EmptyDict
    /\ usgs_data = EmptyDict
    /\ comid_mapping = EmptyDict
    /\ nwm_data = EmptyDict
    /\ rows = <<>>

\* the predictions of the target date are read (the filter time == target
\* date); verify_hpp_date of version 2 raises when there is none, and
\* load_hpp_predictions of three_way_validation keeps the valid uuids only
LoadHpp ==
    /\ AtStep("hpp")
    /\ \E hpp \in Dicts(CatalogUUIDs, {30}) :
         /\ hpp_daily' =
              IF pipeline = "three_way_validation"
              THEN [u \in DOMAIN hpp \cap
                          Range(valid_uuids_of(comid_mapping, uuid_to_site_of(pour_points)))
                      |-> hpp[u]]
              ELSE hpp
         /\ outcome' = IF pipeline = "state_validation_v2" /\ hpp = EmptyDict
                       THEN "failed" ELSE outcome
    /\ ppc' = ppc + 1
    /\ UNCHANGED <<pipeline, target_date, pour_points, usgs_data, comid_mapping, nwm_data, rows>>

\* the site ids of state s, in catalog order
state_sites(s) == Column(SelectSeq(Sites, LAMBDA site : site.state = s), "site_id")

\* dict.update
Update(d, e) == [k \in DOMAIN d \cup DOMAIN e |-> IF k \in DOMAIN e THEN e[k] ELSE d[k]]

\* the two state scripts fetch the gauges state by state
FetchUsgsByState ==
    /\ AtStep("usgs")
    /\ pipeline \in {"state_validation", "state_validation_v2"}
    /\ LET r == IF pipeline = "state_validation" THEN "fetch_usgs_batch"
                ELSE "fetch_usgs_batch_v2" IN
       \E tx \in RespSeqs(state_sites("TX"), 0),
          ca \in RespSeqs(state_sites("CA"), 0),
          nc \in RespSeqs(state_sites("NC"), 0) :
         usgs_data' =
            Update(Update(
                fetch_usgs_dict(r, state_sites("TX"), 0, target_date, tx, EmptyDict),
                fetch_usgs_dict(r, state_sites("CA"), 0, target_date, ca, EmptyDict)),
                fetch_usgs_dict(r, state_sites("NC"), 0, target_date, nc, EmptyDict))
    /\ ppc' = ppc + 1
    /\ UNCHANGED <<pipeline, target_date, pour_points, outcome, hpp_daily, comid_mapping,
                   nwm_data, rows>>

\* site_ids of three_way_validation.main: the valid uuids that have a prediction
site_ids_three_way ==
    LET uuid_to_site == uuid_to_site_of(pour_points)
        us == SelectSeq(valid_uuids_of(comid_mapping, uuid_to_site),
                        LAMBDA u : u \in DOMAIN hpp_daily)
    IN  [k \in 1..Len(us) |-> uuid_to_site[us[k]]]

FetchUsgsData ==
    /\ AtStep("usgs")
    /\ pipeline = "three_way_validation"
    /\ \E resps \in RespSeqs(site_ids_three_way, 0) :
         usgs_data' = fetch_usgs_dict("fetch_usgs_data", site_ids_three_way, 0,
                                      target_date, resps, EmptyDict)
    /\ ppc' = ppc + 1
    /\ UNCHANGED <<pipeline, target_date, pour_points, outcome, hpp_daily, comid_mapping,
                   nwm_data, rows>>

\* run_validation and run_three_way_validation call fetch_usgs_daily for the
\* whole site list; an exception it lets out ends the run
FetchUsgsDaily ==
    /\ AtStep("usgs")
    /\ pipeline \in {"run_validation", "run_three_way_validation"}
    /\ LET list == Column(Sites, "site_id") IN
       \E resps \in RespSeqs(list, 0) :
         LET out == fetch_usgs_daily(list, 0, resps, <<>>) IN
         /\ usgs_data' = out.records
         /\ outcome' = IF out.raised THEN "failed" ELSE outcome
    /\ ppc' = ppc + 1
    /\ UNCHANGED <<pipeline, target_date, pour_points, hpp_daily, comid_mapping, nwm_data, rows>>

\* the crosswalk: get_usgs_to_comid_mapping (version 2) and
\* map_usgs_to_comid_local (run_three_way_validation) give site_id -> comid;
\* the file three_way_validation loads is read as UUID -> comid
MapComids ==
    /\ AtStep("mapping")
    /\ comid_mapping' \in
         Dicts(IF pipeline = "three_way_validation" THEN CatalogUUIDs ELSE CatalogSiteIds,
               Comids)
    /\ ppc' = ppc + 1
    /\ UNCHANGED <<pipeline, target_date, pour_points, outcome, hpp_daily, usgs_data,
                   nwm_data, rows>>

\* comids of three_way_validation.main
comids_three_way ==
    LET uuid_to_site == uuid_to_site_of(pour_points) IN
    {comid_mapping[u] : u \in Range(valid_uuids_of(comid_mapping, uuid_to_site))
                               \cap DOMAIN hpp_daily}

\* the reach-model source is read
FetchNwm ==
    /\ AtStep("nwm")
    /\ pipeline # "state_validation"
    /\ \E nwm_velocity \in Dicts(Comids, {2}), river_edges \in Dicts(Comids, {5000}),
          db_day \in Dates :
         nwm_data' =
            CASE pipeline = "state_validation_v2" -> nwm_lookup_v2(nwm_velocity)
              [] pipeline = "three_way_validation" ->
                    fetch_nwm_data(comids_three_way, target_date, nwm_velocity,
                                   river_edges, db_day)
              [] OTHER ->
                    fetch_nwm_from_db(Range(comid_mapping), nwm_velocity, db_day)
    /\ ppc' = ppc + 1
    /\ UNCHANGED <<pipeline, target_date, pour_points, outcome, hpp_daily, usgs_data,
                   comid_mapping, rows>>

\* the reach-model source fails entirely.  state_validation_v2.main tests its
\* file before any other step and calls sys.exit when it is missing; the
\* other pipelines open the database with psycopg2.connect outside any try,
\* and the exception leaves main or run_three_way_validation.  Nothing is
\* saved in either case.
NwmSourceFails ==
    /\ pipeline # "run_validation"
    /\ IF pipeline = "state_validation_v2" THEN AtStep("hpp") ELSE AtStep("nwm")
    /\ outcome' = "aborted"
    /\ UNCHANGED <<pipeline, target_date, pour_points, ppc, hpp_daily, usgs_data,
                   comid_mapping, nwm_data, rows>>

\* state_validation.main looks the reach-model flow up gauge by gauge, maps
\* it onto the rows and saves them
FetchNwmV1 ==
    /\ AtStep("nwm")
    /\ pipeline = "state_validation"
    /\ \E gauge_cms \in Dicts(Range(Column(rows, "site_id")), {0, 2}), db_day \in Dates :
         /\ nwm_data' = nwm_data_v1(Range(Column(rows, "site_id")), gauge_cms, db_day)
         /\ rows' = map_nwm_v1(rows, nwm_data')
    /\ ppc' = ppc + 1
    /\ outcome' = "saved"
    /\ UNCHANGED <<pipeline, target_date, pour_points, hpp_daily, usgs_data, comid_mapping>>

\* the comparison table is built; except in state_validation it is then
\* saved.  An empty table makes the state scripts fail on a missing column;
\* run_validation returns without saving when no row has both values, and
\* fails reading 'r' from the error dict when only one has.
BuildRows ==
    /\ AtStep("rows")
    /\ rows' =
         CASE pipeline = "state_validation" -> rows_v1(Sites, hpp_daily, usgs_data)
           [] pipeline = "state_validation_v2" ->
                 rows_v2(Sites, hpp_daily, usgs_data, comid_mapping, nwm_data)
           [] pipeline = "three_way_validation" ->
                 rows_three_way(valid_uuids_of(comid_mapping, uuid_to_site_of(pour_points)),
                                uuid_to_site_of(pour_points), comid_mapping, hpp_daily,
                                usgs_data, nwm_data)
           [] pipeline = "run_validation" ->
                 valid_rows(merge_usgs(Sites, EmptyDict, usgs_data))
           [] OTHER -> merge_nwm(merge_usgs(Sites, comid_mapping, usgs_data), nwm_data)
    /\ outcome' =
         CASE pipeline = "state_validation" -> IF rows' = <<>> THEN "failed" ELSE "running"
           [] pipeline = "state_validation_v2" -> IF rows' = <<>> THEN "failed" ELSE "saved"
           [] pipeline = "run_validation" ->
                 IF rows' = <<>> THEN "returned"
                 ELSE IF Len(rows') < 2 THEN "failed" ELSE "saved"
           [] OTHER -> "saved"
    /\ ppc' = ppc + 1
    /\ UNCHANGED <<pipeline, target_date, pour_points, hpp_daily, usgs_data, comid_mapping,
                   nwm_data>>

-----------------------------------------------------------------------------
(* The metrics engine.  Flows are whole numbers of cfs; a statistic is an   *)
(* exact fraction, or what numpy gives for a division by zero.              *)

NaN == [tag |-> "nan"]
PosInf == [tag |-> "inf"]
NegInf == [tag |-> "-inf"]

RECURSIVE GCD(_, _)
GCD(a, b) == IF b = 0 THEN a ELSE GCD(b, a % b)

Abs(x) == IF x < 0 THEN -x ELSE x

\* the fraction n / d in lowest terms, d > 0
Frac(n, d) ==
    LET g == GCD(Abs(n), Abs(d))
        sgn == IF d < 0 THEN -1 ELSE 1
    IN  [tag |-> "num", num |-> sgn * (n \div g), den |-> sgn * (d \div g)]

\* numpy's n / d on floats: nan for 0 / 0, an infinity for x / 0
Div(n, d) ==
    IF d # 0 THEN Frac(n, d)
    ELSE IF n = 0 THEN NaN ELSE IF n > 0 THEN PosInf ELSE NegInf

\* 1 - v
OneMinus(v) ==
    CASE v.tag = "num" -> Frac(v.den - v.num, v.den)
      [] v.tag = "inf" -> NegInf
      [] v.tag = "-inf" -> PosInf
      [] OTHER -> v

\* np.sqrt(v) of a v >= 0, and v as a signed root (sign * sqrt(of))
Sqrt(v) ==
    IF v.tag = "num" /\ v.num # 0 THEN [tag |-> "sqrt", sign |-> 1, of |-> v] ELSE v

\* 10 ** k
RECURSIVE Pow10(_)
Pow10(k) == IF k = 0 THEN 1 ELSE 10 * Pow10(k - 1)

\* the whole number nearest to n / d (d > 0), a tie going to the even one
RoundDiv(n, d) ==
    LET q == n \div d
        r == n % d
    IN  IF 2 * r < d THEN q
        ELSE IF 2 * r > d THEN q + 1
        ELSE IF q % 2 = 0 THEN q ELSE q + 1

\* round(v, k): a fraction is rounded to k decimals, a root of a fraction to
\* the k-decimal number nearest to it (for k > 2 the rounded root is kept
\* unevaluated); nan and the infinities stay
round(v, k) ==
    CASE v.tag = "num" -> Frac(RoundDiv(v.num * Pow10(k), v.den), Pow10(k))
      [] v.tag = "sqrt" /\ k <= 2 ->
            LET s == Pow10(k)
                \* t is nearest to s * sqrt(num / den) when
                \* (2t - 1)^2 <= 4 s^2 num / den < (2t + 1)^2
                q == (4 * s * s * v.of.num) \div v.of.den
                t == CHOOSE t \in 0..(s * (1 + v.of.num \div v.of.den)) :
                        /\ t = 0 \/ (2 * t - 1) * (2 * t - 1) <= q
                        /\ q < (2 * t + 1) * (2 * t + 1)
            IN  Frac(v.sign * t, s)
      [] v.tag = "sqrt" /\ k > 2 -> [tag |-> "round", of |-> v, digits |-> k]
      [] v.tag \in {"kge", "log_rmse"} -> [tag |-> "round", of |-> v, digits |-> k]
      [] OTHER -> v

RECURSIVE SumSeq(_)
SumSeq(q) == IF q = <<>> THEN 0 ELSE Head(q) + SumSeq(Tail(q))

\* np.log10 of the flows of the model, which are powers of ten
log10(x) == CASE x = 1 -> 0 [] x = 10 -> 1 [] x = 100 -> 2

\* n * sum((a - mean(a)) * (b - mean(b))), which is the sum over the pairs
\* i < j of (a[i] - a[j]) * (b[i] - b[j])
RECURSIVE CoMoment(_, _)
CoMoment(a, b) ==
    IF Len(a) <= 1 THEN 0
    ELSE SumSeq([k \in 1..(Len(a) - 1) |-> (a[1] - a[k + 1]) * (b[1] - b[k + 1])])
         + CoMoment(Tail(a), Tail(b))

\* the sums the statistics are made of, over paired lists o and p
Sums(o, p) ==
    LET n == Len(o) IN
    [n |-> n,
     err |-> SumSeq([k \in 1..n |-> p[k] - o[k]]),
     sse |-> SumSeq([k \in 1..n |-> (p[k] - o[k]) * (p[k] - o[k])]),
     abs_err |-> SumSeq([k \in 1..n |-> Abs(p[k] - o[k])]),
     so |-> SumSeq(o),
     sp |-> SumSeq(p),
     \* n * sum((o - mean(o)) ** 2), the same for p, and n * the co-moment
     sst |-> CoMoment(o, o),
     spt |-> CoMoment(p, p),
     cov |-> CoMoment(o, p)]

\* np.sqrt(np.mean((pred - obs) ** 2))
stat_rmse(m) == Sqrt(Div(m.sse, m.n))
\* 100 * np.sum(pred - obs) / np.sum(obs)
stat_pbias(m) == Div(100 * m.err, m.so)
\* 1 - np.sum((obs - pred) ** 2) / np.sum((obs - np.mean(obs)) ** 2)
stat_nse(m) == OneMinus(Div(m.sse * m.n, m.sst))
\* np.corrcoef(obs, pred)[0, 1] ** 2, and the coefficient itself
stat_r2(m) == IF m.sst = 0 \/ m.spt = 0 THEN NaN
              ELSE Frac((m.cov \div GCD(Abs(m.cov), m.sst)) * (m.cov \div GCD(Abs(m.cov), m.spt)),
                        (m.sst \div GCD(Abs(m.cov), m.sst)) * (m.spt \div GCD(Abs(m.cov), m.spt)))
stat_r(m) ==
    LET r2 == stat_r2(m)
        sign == IF m.cov < 0 THEN -1 ELSE 1
    IN  IF r2.tag # "num" THEN NaN
        ELSE IF r2.num = 0 THEN Frac(0, 1)
        ELSE IF r2.num = r2.den THEN Frac(sign, 1)
        ELSE [tag |-> "sqrt", sign |-> sign, of |-> r2]

\* the floors of usable pairs: `if len(obs_valid) < 5` in state_validation
\* and state_validation_v2, `< 10` in three_way_validation, and
\* `if len(obs) < 2` in validate.calculate_metrics
FLOOR_STATE == 5
FLOOR_THREE_WAY == 10
FLOOR_CALCULATE == 2

\* the floor test taken one pair too low
insufficient_below(obs_valid, floor) == Len(obs_valid) < floor - 1

\* if len(obs_valid) < floor: return None
insufficient(obs_valid, floor) == Len(obs_valid) < floor

\* valid = (obs > 0) & (pred > 0): the positions kept, in order
valid_positions(obs, pred) ==
    SelectSeq([k \in 1..Len(obs) |-> k], LAMBDA k : obs[k] > 0 /\ pred[k] > 0)

Pick(q, positions) == [k \in 1..Len(positions) |-> q[positions[k]]]

Log10Seq(q) == [k \in 1..Len(q) |-> log10(q[k])]

\* compute_metrics of state_validation and of state_validation_v2
compute_metrics(observed, predicted) ==
    LET valid == valid_positions(observed, predicted)
        obs_valid == Pick(observed, valid)
        pred_valid == Pick(predicted, valid)
        m == Sums(obs_valid, pred_valid)
        lm == Sums(Log10Seq(obs_valid), Log10Seq(pred_valid))
    IN  IF insufficient(obs_valid, FLOOR_STATE) THEN None
        ELSE Some([n |-> Len(obs_valid),
                   rmse |-> round(stat_rmse(m), 1),
                   pbias |-> round(stat_pbias(m), 1),
                   nse |-> round(stat_nse(m), 3),
                   r2 |-> round(stat_r2(m), 3),
                   log_nse |-> round(stat_nse(lm), 3)])

\* compute_metrics of three_way_validation
compute_metrics_three_way(observed, predicted) ==
    LET valid == valid_positions(observed, predicted)
        obs_valid == Pick(observed, valid)
        pred_valid == Pick(predicted, valid)
        m == Sums(obs_valid, pred_valid)
        lm == Sums(Log10Seq(obs_valid), Log10Seq(pred_valid))
    IN  IF insufficient(obs_valid, FLOOR_THREE_WAY) THEN None
        ELSE Some([n |-> Len(obs_valid),
                   rmse |-> stat_rmse(m),
                   pbias |-> stat_pbias(m),
                   nse |-> stat_nse(m),
                   r |-> stat_r(m),
                   r2 |-> stat_r2(m),
                   log_rmse |-> stat_rmse(lm),
                   log_nse |-> stat_nse(lm)])

\* Python's None as the value of a key
PyNone == [tag |-> "None"]

\* round(x, k) if not np.isnan(x) else None
round_or_none(v, k) == IF v = NaN THEN PyNone ELSE round(v, k)

\* a number that is an artefact of rounding: what a division by the
\* residue of an inexact mean gives
Noise == [tag |-> "noise"]

\* mask = ~(np.isnan(observed) | np.isnan(predicted)): the positions kept.
\* The flows handed to calculate_metrics are held in tenths of a cfs (11
\* is 1.1 cfs), NaN as None.
mask_positive_only(observed, predicted) ==
    SelectSeq([k \in 1..Len(observed) |-> k],
              LAMBDA k : /\ observed[k] # None /\ predicted[k] # None
                         /\ observed[k][1] > 0 /\ predicted[k][1] > 0)

mask_positions(observed, predicted) ==
    SelectSeq([k \in 1..Len(observed) |-> k],
              LAMBDA k : observed[k] # None /\ predicted[k] # None)

Masked(q, positions) == [k \in 1..Len(positions) |-> q[positions[k]][1]]

\* whether np.mean(q) of a list of identical flows is that flow.  In double
\* precision the sum is accumulated and then divided by the length: it is
\* exact for whole numbers of cfs, and not for 0.1 cfs at these lengths
\* (0.1 + 0.1 + 0.1 = 0.30000000000000004).
mean_is_exact(q) == ~(Len(q) \in {3, 6, 7} /\ \A k \in 1..Len(q) : q[k] = 1)

\* np.sum((q - np.mean(q)) ** 2) == 0, which is also np.std(q) == 0, for the
\* moment mt of q
is_flat(q, mt) == mt = 0 /\ mean_is_exact(q)

\* np.corrcoef(obs, pred)[0, 1]: nan when a variance is zero, a rounding
\* artefact when one is the residue of an inexact mean
calc_r(obs, pred, m) ==
    IF is_flat(obs, m.sst) \/ is_flat(pred, m.spt) THEN NaN
    ELSE IF m.sst = 0 \/ m.spt = 0 THEN Noise
    ELSE stat_r(m)

\* ss_res / ss_tot in the place of 1 - (ss_res / ss_tot)
calc_nse_ratio(obs, m) ==
    IF is_flat(obs, m.sst) THEN NaN
    ELSE IF m.sst = 0 THEN (IF m.sse = 0 THEN Frac(0, 1) ELSE Noise)
    ELSE Div(m.sse, m.sst)

\* 1 - (ss_res / ss_tot) if ss_tot != 0 else np.nan
calc_nse(obs, m) ==
    IF is_flat(obs, m.sst) THEN NaN
    ELSE IF m.sst = 0 THEN (IF m.sse = 0 THEN Frac(1, 1) ELSE Noise)
    ELSE stat_nse(m)

\* kge of calculate_metrics: 1 - sqrt((r - 1)^2 + (alpha - 1)^2 + (beta - 1)^2)
\* with r taken as 0 when it is nan, alpha = std(pred) / std(obs) and
\* beta = mean(pred) / mean(obs), nan when std(obs) or mean(obs) is 0; the
\* number is kept unevaluated, alpha by its square
stat_kge(obs, r, m) ==
    IF is_flat(obs, m.sst) \/ m.so = 0 THEN NaN
    ELSE [tag |-> "kge",
          r_kge |-> IF r = NaN THEN Frac(0, 1) ELSE r,
          alpha2 |-> IF m.sst = 0 THEN Noise ELSE Frac(m.spt, m.sst),
          beta |-> Frac(m.sp, m.so)]

\* np.log10 of flows in tenths of a cfs
Log10Tenths(q) == [k \in 1..Len(q) |-> log10(q[k]) - 1]

\* np.sqrt(np.mean((log_pred - log_obs) ** 2)) for the flows lo and lp the
\* logarithms are taken of: lp[k] is differenced against lo[k].  It is
\* evaluated when the flows are powers of ten and kept unevaluated otherwise.
calc_log_rmse(lo, lp) ==
    IF \A k \in 1..Len(lo) : lo[k] \in {1, 10, 100} /\ lp[k] \in {1, 10, 100}
    THEN stat_rmse(Sums(Log10Tenths(lo), Log10Tenths(lp)))
    ELSE [tag |-> "log_rmse", of_obs |-> lo, of_pred |-> lp]

\* np.mean(errors ** 2), the root not taken
calc_mse(m) == Div(m.sse, m.n * 100)

\* rmse = np.sqrt(np.mean(errors ** 2)), in cfs of errors in tenths of a cfs
calc_rmse(m) == Sqrt(Div(m.sse, m.n * 100))

\* validate.calculate_metrics: the error dict under the floor, else every
\* statistic
calculate_metrics(observed, predicted) ==
    LET mask == mask_positions(observed, predicted)
        obs == Masked(observed, mask)
        pred == Masked(predicted, mask)
        m == Sums(obs, pred)
        r == calc_r(obs, pred, m)
        r2 == IF r.tag \in {"nan", "noise"} THEN r ELSE stat_r2(m)
        \* log_obs = np.log10(obs[obs > 0]), log_pred = np.log10(pred[pred > 0])
        log_obs_of == SelectSeq(obs, LAMBDA x : x > 0)
        log_pred_of == SelectSeq(pred, LAMBDA x : x > 0)
        log_rmse == IF /\ Len(log_obs_of) > 1 /\ Len(log_pred_of) > 1
                       /\ Len(log_obs_of) = Len(log_pred_of)
                    THEN calc_log_rmse(log_obs_of, log_pred_of)
                    ELSE NaN
    IN  IF insufficient(obs, FLOOR_CALCULATE)
        THEN [n |-> Len(obs), error |-> "Insufficient data"]
        ELSE [n |-> Len(obs),
              r |-> round_or_none(r, 4),
              r2 |-> round_or_none(r2, 4),
              mae_cfs |-> round(Div(m.abs_err, m.n * 10), 2),
              rmse_cfs |-> round(calc_rmse(m), 2),
              log_rmse |-> round_or_none(log_rmse, 4),
              pbias_pct |-> round_or_none(IF m.so # 0 THEN stat_pbias(m) ELSE NaN, 2),
              nse |-> round_or_none(calc_nse(obs, m), 4),
              kge |-> round_or_none(stat_kge(obs, r, m), 4)]

\* the keys a full result of each engine holds
KEYS_STATE == {"n", "rmse", "pbias", "nse", "r2", "log_nse"}
KEYS_THREE_WAY == {"n", "rmse", "pbias", "nse", "r", "r2", "log_rmse", "log_nse"}

-----------------------------------------------------------------------------
(* The metrics machine: a table is put together, a caller hands it to the   *)
(* engine and reports from the result.                                      *)

Callers == {"state_validation.overall", "state_validation.by_state",
            "state_validation_v2.overall", "state_validation_v2.by_state",
            "three_way_validation.main", "run_validation"}

\* the (usgs_cfs, hpp_cfs) rows a table is made of.  The statistics do not
\* depend on the order of the rows, so a table lists them kind by kind.
PairKinds == << <<10, 10>>, <<1, 10>>, <<10, 1>>, <<0, 10>> >>

KindOf(row) == CHOOSE k \in 1..Len(PairKinds) : PairKinds[k] = <<row.usgs_cfs, row.hpp_cfs>>

\* a column of whole flows as calculate_metrics takes it
Tenths(q) == [k \in 1..Len(q) |-> Some(10 * q[k])]

MetricsInit ==
    /\ caller \in Callers
    /\ frame = <<>>
    /\ mpc = "input"
    /\ metrics = None

AddPair ==
    /\ mpc = "input"
    /\ Len(frame) < MaxPairs
    /\ \E k \in 1..Len(PairKinds) :
         /\ frame # <<>> => KindOf(frame[Len(frame)]) <= k
         /\ frame' = Append(frame, [usgs_cfs |-> PairKinds[k][1], hpp_cfs |-> PairKinds[k][2]])
    /\ UNCHANGED <<caller, mpc, metrics>>

\* the caller's call of the engine, behind the caller's own check if it has
\* one.  The overall report of a state script is reached with a table that
\* has a row; run_validation returns early on an empty one.
CallEngine ==
    /\ mpc = "input"
    /\ LET usgs_cfs == Column(frame, "usgs_cfs")
           hpp_cfs == Column(frame, "hpp_cfs")
       IN
       CASE caller \in {"state_validation.overall", "state_validation_v2.overall"} ->
               /\ frame # <<>>
               /\ metrics' = compute_metrics(usgs_cfs, hpp_cfs)
               /\ mpc' = "called"
         [] caller = "state_validation.by_state" ->
               /\ metrics' = IF Len(frame) >= 5 THEN compute_metrics(usgs_cfs, hpp_cfs) ELSE None
               /\ mpc' = "called"
         [] caller = "state_validation_v2.by_state" ->
               /\ metrics' = compute_metrics(usgs_cfs, hpp_cfs)
               /\ mpc' = "called"
         [] caller = "three_way_validation.main" ->
               IF Len(frame) >= 10
               THEN /\ metrics' = compute_metrics_three_way(usgs_cfs, hpp_cfs)
                    /\ mpc' = "called"
               ELSE /\ metrics' = None
                    /\ mpc' = "skipped"
         [] OTHER ->
               IF Len(frame) = 0
               THEN /\ metrics' = None
                    /\ mpc' = "skipped"
               ELSE /\ metrics' = Some(calculate_metrics(Tenths(usgs_cfs), Tenths(hpp_cfs)))
                    /\ mpc' = "called"
    /\ UNCHANGED <<caller, frame>>

\* the keys the caller's report reads
Reads(c) ==
    CASE c \in {"state_validation.overall", "state_validation.by_state",
                "state_validation_v2.overall", "state_validation_v2.by_state"} ->
            {"n", "nse", "r2", "pbias", "log_nse"}
      [] c = "three_way_validation.main" -> {"n", "nse", "r2", "pbias", "rmse", "log_nse"}
      [] OTHER -> {"n", "r", "r2", "nse", "kge", "rmse_cfs", "log_rmse", "pbias_pct"}

\* `if hpp_m:` before the report
ChecksResult(c) == c \in {"state_validation.by_state", "state_validation_v2.by_state"}

\* the report: subscripting None, or a key the dict lacks, ends the run
Report ==
    /\ mpc = "called"
    /\ mpc' = IF metrics = None
              THEN IF ChecksResult(caller) THEN "reported" ELSE "crashed"
              ELSE IF Reads(caller) \subseteq DOMAIN metrics[1] THEN "reported" ELSE "crashed"
    /\ UNCHANGED <<caller, frame, metrics>>

-----------------------------------------------------------------------------
(* calculate_metrics called on two arrays, as run_validation, run_three_way_validation
   and the tests call it *)

\* the (observed, predicted) elements of the arrays, in tenths of a cfs: equal
\* flows, flows a decade apart, a zero on either side, a missing observation,
\* a negative observation, and predictions 0.1 cfs over the observation
SmallFlows ==
    { <<Some(1), Some(1)>>, <<Some(10), Some(10)>>, <<Some(1), Some(10)>>,
      <<Some(10), Some(1)>>, <<Some(0), Some(1)>>, <<Some(10), Some(0)>>,
      <<None, Some(1)>>, <<Some(-10), Some(1)>>, <<Some(1), Some(2)>>,
      <<Some(10), Some(11)>> }

\* flows of a large river, the prediction 0.1 cfs over the observation
LargeFlows == { <<Some(20010), Some(20011)>>, <<Some(20020), Some(20021)>> }

CalcInit ==
    /\ arrays = <<>>
    /\ cpc = "input"
    /\ calc = None

\* one more element of the arrays, of the same river as the elements before
AddElement ==
    /\ cpc = "input"
    /\ Len(arrays) < MaxCalc
    /\ \E e \in SmallFlows \cup LargeFlows :
         /\ arrays # <<>> => (e \in LargeFlows <=> arrays[1] \in LargeFlows)
         /\ arrays' = Append(arrays, e)
    /\ UNCHANGED <<cpc, calc>>

observed_of(a) == [k \in 1..Len(a) |-> a[k][1]]
predicted_of(a) == [k \in 1..Len(a) |-> a[k][2]]

\* metrics = calculate_metrics(obs, pred)
Calculate ==
    /\ cpc = "input"
    /\ calc' = Some(calculate_metrics(observed_of(arrays), predicted_of(arrays)))
    /\ cpc' = "called"
    /\ UNCHANGED arrays

-----------------------------------------------------------------------------
(* The resolvers of a site to its river reach: build_crosswalk.main,
   map_usgs_to_comid_local.match_coords_to_comid and
   state_validation_v2.get_usgs_to_comid_mapping *)

Resolvers == {"build_crosswalk", "match_coords_to_comid", "get_usgs_to_comid_mapping"}

\* a row of river_edges as a site sees it: the reach's comid and its nearest
\* point, dx east and dy north of the site in units of 0.0002 degree
Edge(c, dx, dy) == [comid |-> c, dx |-> dx, dy |-> dy]

\* the reaches a site may have around it: one 511 m to the north, one 458 m to
\* the east, and two 444 m away, to the north and to the south
NearbyEdges == {Edge(1, 0, 23), Edge(2, 24, 0), Edge(3, 0, 20), Edge(4, 0, -20)}

\* decimetres in 0.0002 degree of latitude, and of longitude at 31 N
DM_NORTH == 222
DM_EAST == 191

\* ST_Distance(geom::geography, point::geography), squared, in dm^2
dist_m2(e) == (DM_EAST * e.dx) * (DM_EAST * e.dx) + (DM_NORTH * e.dy) * (DM_NORTH * e.dy)

\* geom <-> point and ST_Distance(g.geom, geom) of geometries in degrees, squared
dist_deg2(e) == e.dx * e.dx + e.dy * e.dy

\* 500 m, in dm, and 0.01 degree, in units of 0.0002 degree
RADIUS_DM == 5000
BOX_UNITS == 50

\* geom && ST_Expand(point, 0.01)
in_box(e) == Abs(e.dx) <= BOX_UNITS /\ Abs(e.dy) <= BOX_UNITS

\* the rows a query hands to ORDER BY: its WHERE clause over the reaches
candidates(r, near) ==
    CASE r = "build_crosswalk" -> {e \in near : in_box(e)}
      [] r = "match_coords_to_comid" -> {e \in near : dist_m2(e) <= RADIUS_DM * RADIUS_DM}
      [] r = "get_usgs_to_comid_mapping" -> {e \in near : dist_deg2(e) <= BOX_UNITS * BOX_UNITS}

\* the key of ORDER BY
order_key(r, e) == IF r = "match_coords_to_comid" THEN dist_m2(e) ELSE dist_deg2(e)

\* ORDER BY ... LIMIT 1: the rows the query may return.  Rows of equal key
\* come in the order the index scan meets them, so any of them may be first.
first_rows(r, near) ==
    {e \in candidates(r, near) : \A o \in candidates(r, near) : order_key(r, e) <= order_key(r, o)}

\* `if row and row[2] < 500` of build_crosswalk; the two others keep any row
accepted(r, row) == r = "build_crosswalk" => dist_m2(row) < RADIUS_DM * RADIUS_DM

\* the reaches around a site: none, the far one, the near one, both, and the
\* two at the same distance
Neighbourhoods ==
    { {}, {Edge(1, 0, 23)}, {Edge(2, 24, 0)}, {Edge(1, 0, 23), Edge(2, 24, 0)},
      {Edge(3, 0, 20), Edge(4, 0, -20)} }

\* what a site's query does: it returns its rows, or it raises before the
\* statement reaches the server ("client"), or the server rejects it
\* ("server"), which leaves the connection's transaction aborted
Faults == {"none", "client", "server"}

\* the sites handed to resolver r, each with the reaches around it.  The
\* features of pour_points.geojson (build_crosswalk) may share a site_id or
\* have no "site_id" key (None); the keys of coords and the rows of
\* usgs_gauges are one per site.  The query of one site at most is at fault.
\* the UUID of feature k of a catalog of n features: the text of the site id
\* the catalog gives a gauged feature k ("same"), a text no site id has
\* ("other"), or the text of another feature's site id ("crossed")
UuidSchemes == {"same", "other", "crossed"}
uuid_of(scheme, k, n) ==
    CASE scheme = "same" -> k
      [] scheme = "other" -> 100 + k
      [] scheme = "crossed" -> n + 1 - k

PointsOf(r, n) ==
    LET sited ==
            {c \in [1..n -> [site_id : {Some(k) : k \in 1..n} \cup {None},
                             near : Neighbourhoods, fault : Faults]] :
                /\ \A k \in 1..n :
                      IF r = "build_crosswalk"
                      THEN c[k].site_id \in {Some(k), Some(1), None}
                      ELSE c[k].site_id = Some(k)
                /\ \A j, k \in 1..n : (c[j].fault # "none" /\ c[k].fault # "none") => j = k}
    IN  {[k \in 1..n |-> [site_id |-> c[k].site_id, UUID |-> uuid_of(scheme, k, n),
                          near |-> c[k].near, fault |-> c[k].fault]] :
            c \in sited,
            scheme \in IF r = "build_crosswalk" THEN UuidSchemes ELSE {"other"}}

ResolverInit ==
    /\ resolver \in Resolvers
    /\ points \in UNION {PointsOf(resolver, n) : n \in 1..MaxCatalog}
    /\ nsite = 0
    /\ xwalk = EmptyDict
    /\ failed_sites = <<>>
    /\ runs = <<>>

\* cur.execute of site k raises: its own fault, or, on a psycopg2 connection
\* whose transaction an earlier statement aborted and nobody rolled back,
\* "current transaction is aborted, commands ignored"
query_raises(k) ==
    \/ points[k].fault # "none"
    \/ \E j \in 1..(k - 1) : points[j].fault = "server"

\* an exception leaves the resolver at site k: the KeyError of
\* f['properties']['site_id'] or the error of a query outside any try
leaves_resolver(k) ==
    \/ resolver = "build_crosswalk" /\ points[k].site_id = None
    \/ resolver # "match_coords_to_comid" /\ query_raises(k)

\* what a run hands back: the mapping built (the crosswalk saved), the list
\* failed, whether an exception ended it, and how many sites it queried
Run(m, f, raised, queried) == [mapping |-> m, failed |-> f, raised |-> raised, queried |-> queried]

\* one pass of the loop over the sites: the query and what is done with its row
ResolveSite ==
    /\ resolver \in Resolvers
    /\ Len(runs) < 2
    /\ nsite < Len(points)
    /\ LET site == points[nsite + 1]
           rows_first == first_rows(resolver, site.near)
       IN  IF leaves_resolver(nsite + 1)
           THEN \* main raises: nothing is saved or returned
                /\ runs' = Append(runs, Run(EmptyDict, <<>>, TRUE,
                                            IF site.site_id = None THEN nsite ELSE nsite + 1))
                /\ nsite' = 0
                /\ xwalk' = EmptyDict
                /\ failed_sites' = <<>>
           ELSE /\ IF query_raises(nsite + 1)
                   THEN \* except Exception: continue
                        /\ xwalk' = xwalk
                        /\ failed_sites' = failed_sites
                   ELSE \/ /\ rows_first = {}
                           /\ xwalk' = xwalk
                           /\ failed_sites' = IF resolver = "build_crosswalk"
                                              THEN Append(failed_sites, site.site_id[1])
                                              ELSE failed_sites
                        \/ \E row \in rows_first :
                             IF accepted(resolver, row)
                             THEN /\ xwalk' = DictSet(xwalk, site.site_id[1], row.comid)
                                  /\ failed_sites' = failed_sites
                             ELSE /\ xwalk' = xwalk
                                  /\ failed_sites' = Append(failed_sites, site.site_id[1])
                /\ nsite' = nsite + 1
                /\ runs' = runs
    /\ UNCHANGED <<resolver, points>>

\* the resolver returns (build_crosswalk saves its file); the next run starts
\* from the same sites and the same reaches
EndRun ==
    /\ resolver \in Resolvers
    /\ Len(runs) < 2
    /\ nsite = Len(points)
    /\ runs' = Append(runs, Run(xwalk, failed_sites, FALSE, Len(points)))
    /\ nsite' = 0
    /\ xwalk' = EmptyDict
    /\ failed_sites' = <<>>
    /\ UNCHANGED <<resolver, points>>

-----------------------------------------------------------------------------
(* fetch_nwm_archive.map_usgs_to_comid, its pool of workers, and the
   sequential fetch_nwm.map_usgs_to_nwm_comid *)

\* what requests.get gives for a site: an exception, a timeout, a status other
\* than 200, or a 200 whose body has no feature, or a first feature whose
\* properties hold no comid, or the comid as the text the service sends
NldiResponses ==
    { [kind |-> "raises"], [kind |-> "timeout"], [kind |-> "status404"],
      [kind |-> "no_features"], [kind |-> "no_comid"],
      [kind |-> "comid", text |-> "101"], [kind |-> "comid", text |-> "0"],
      [kind |-> "comid", text |-> "x"] }

\* int(comid) of the texts of the model: the number, or None for a ValueError
int_of(text) == CASE text = "101" -> Some(101) [] text = "0" -> Some(0) [] OTHER -> None

\* the body of the try of fetch_comid: the comid it returns (None for the
\* final `return (site_id, None)`), or that an exception was raised in it
try_lookup(resp) ==
    CASE resp.kind \in {"raises", "timeout"} -> [exc |-> TRUE, comid |-> None]
      [] resp.kind \in {"status404", "no_features", "no_comid"} -> [exc |-> FALSE, comid |-> None]
      [] resp.kind = "comid" ->
            \* `if comid:` holds of every text but the empty one
            IF int_of(resp.text) = None
            THEN [exc |-> TRUE, comid |-> None]
            ELSE [exc |-> FALSE, comid |-> int_of(resp.text)]

\* fetch_comid with no `except Exception`: the exception leaves the worker
fetch_comid_uncaught(site_id, resp) ==
    [site_id |-> site_id, comid |-> try_lookup(resp).comid, raised |-> try_lookup(resp).exc]

\* fetch_comid: (site_id, comid), or (site_id, None) from `except Exception`
fetch_comid(site_id, resp) ==
    [site_id |-> site_id, comid |-> try_lookup(resp).comid, raised |-> FALSE]

\* `if comid is not None:` in the place of `if comid:`
is_not_none(comid) == comid # None

\* `if comid:` of the collecting loop, on the comid a worker returned
truthy(comid) == comid # None /\ comid[1] # 0

\* fetch_nwm.map_usgs_to_nwm_comid: one site after the other, `if comid:` on
\* what the service sent and int(comid) stored
RECURSIVE map_usgs_to_nwm_comid(_, _)
map_usgs_to_nwm_comid(ids, responses) ==
    IF ids = <<>> THEN EmptyDict
    ELSE LET before == map_usgs_to_nwm_comid(SubSeq(ids, 1, Len(ids) - 1), responses)
             site_id == ids[Len(ids)]
             resp == responses[site_id]
         IN  IF resp.kind = "comid" /\ int_of(resp.text) # None
             THEN DictSet(before, site_id, int_of(resp.text)[1])
             ELSE before

LookupSites == 1..2

\* executor.submit for every site id, in the order of the list
LookupInit ==
    /\ usgs_site_ids \in UNION {[1..n -> LookupSites] : n \in 1..MaxLookups}
    /\ nldi \in [LookupSites -> NldiResponses]
    /\ max_workers \in 1..MaxWorkers
    /\ futures = [k \in 1..Len(usgs_site_ids) |-> [state |-> "pending", result |-> None]]
    /\ collected = {}
    /\ site_comid = EmptyDict
    /\ lpc = "collecting"

\* a free worker takes the oldest lookup of the queue
WorkerStarts ==
    /\ lpc = "collecting"
    /\ Cardinality({k \in 1..Len(futures) : futures[k].state = "running"}) < max_workers
    /\ \E k \in 1..Len(futures) :
         /\ futures[k].state = "pending"
         /\ \A j \in 1..(k - 1) : futures[j].state # "pending"
         /\ futures' = [futures EXCEPT ![k].state = "running"]
    /\ UNCHANGED <<usgs_site_ids, nldi, max_workers, collected, site_comid, lpc>>

\* a worker's fetch_comid returns, whichever worker it is
WorkerFinishes ==
    /\ \E k \in 1..Len(futures) :
         /\ futures[k].state = "running"
         /\ futures' = [futures EXCEPT ![k] =
                [state |-> "done",
                 result |-> Some(fetch_comid(usgs_site_ids[k], nldi[usgs_site_ids[k]]))]]
    /\ UNCHANGED <<usgs_site_ids, nldi, max_workers, collected, site_comid, lpc>>

\* one pass of `for i, future in enumerate(as_completed(futures))` in the
\* calling thread: future.result(), then the insertion
Collect ==
    /\ lpc = "collecting"
    /\ \E k \in 1..Len(futures) :
         /\ futures[k].state = "done"
         /\ k \notin collected
         /\ collected' = collected \cup {k}
         /\ LET res == futures[k].result[1] IN
            IF res.raised
            THEN /\ lpc' = "raised"
                 /\ site_comid' = site_comid
            ELSE /\ lpc' = lpc
                 /\ site_comid' = IF truthy(res.comid)
                                  THEN DictSet(site_comid, res.site_id, res.comid[1])
                                  ELSE site_comid
    /\ UNCHANGED <<usgs_site_ids, nldi, max_workers, futures>>

\* the with block ends (shutdown waits for the workers) and mapping is returned
ReturnMapping ==
    /\ lpc = "collecting"
    /\ collected = 1..Len(futures)
    /\ lpc' = "returned"
    /\ UNCHANGED <<usgs_site_ids, nldi, max_workers, futures, collected, site_comid>>

-----------------------------------------------------------------------------
(* Specifications: each machine runs with the other one idle *)

GaugeIdle ==
    /\ routine = "none" /\ date = 0 /\ site_list = <<>> /\ i = 0 /\ gpc = "idle"
    /\ nseries = 0 /\ results = EmptyDict /\ reported = EmptyDict
    /\ all_data = <<>> /\ requested = <<>> /\ unread = FALSE

PipeIdle ==
    /\ pipeline = "none" /\ target_date = 0 /\ pour_points = <<>> /\ ppc = 0
    /\ outcome = "idle" /\ hpp_daily = EmptyDict /\ usgs_data = EmptyDict
    /\ comid_mapping = EmptyDict /\ nwm_data = EmptyDict /\ rows = <<>>

MetricsIdle == caller = "none" /\ frame = <<>> /\ mpc = "idle" /\ metrics = None

CalcIdle == arrays = <<>> /\ cpc = "idle" /\ calc = None

ResolverIdle ==
    /\ resolver = "none" /\ points = <<>> /\ nsite = 0 /\ xwalk = EmptyDict
    /\ failed_sites = <<>> /\ runs = <<>>

LookupIdle ==
    /\ usgs_site_ids = <<>> /\ nldi = EmptyDict /\ max_workers = 0 /\ futures = <<>>
    /\ collected = {} /\ site_comid = EmptyDict /\ lpc = "idle"

StateIdle == coords = <<0, 0>> /\ labels = <<>>

InitGauge == GaugeInit /\ PipeIdle /\ MetricsIdle /\ CalcIdle /\ ResolverIdle /\ LookupIdle
    /\ StateIdle

NextGauge ==
    \/ RequestFails /\ UNCHANGED <<pipeVars, metricVars, calcVars, resolverVars, lookupVars, stateVars>>
    \/ RequestOk /\ UNCHANGED <<pipeVars, metricVars, calcVars, resolverVars, lookupVars, stateVars>>
    \/ DictSeriesStep /\ UNCHANGED <<pipeVars, metricVars, calcVars, resolverVars, lookupVars, stateVars>>
    \/ DailySeriesStep /\ UNCHANGED <<pipeVars, metricVars, calcVars, resolverVars, lookupVars, stateVars>>
    \/ EndResponse /\ UNCHANGED <<pipeVars, metricVars, calcVars, resolverVars, lookupVars, stateVars>>

SpecGauge == InitGauge /\ [][NextGauge]_vars

InitPipe == PipeInit /\ GaugeIdle /\ MetricsIdle /\ CalcIdle /\ ResolverIdle /\ LookupIdle
    /\ StateIdle

NextPipe ==
    \/ LoadHpp /\ UNCHANGED <<gaugeVars, metricVars, calcVars, resolverVars, lookupVars, stateVars>>
    \/ FetchUsgsByState /\ UNCHANGED <<gaugeVars, metricVars, calcVars, resolverVars, lookupVars, stateVars>>
    \/ FetchUsgsData /\ UNCHANGED <<gaugeVars, metricVars, calcVars, resolverVars, lookupVars, stateVars>>
    \/ FetchUsgsDaily /\ UNCHANGED <<gaugeVars, metricVars, calcVars, resolverVars, lookupVars, stateVars>>
    \/ MapComids /\ UNCHANGED <<gaugeVars, metricVars, calcVars, resolverVars, lookupVars, stateVars>>
    \/ FetchNwm /\ UNCHANGED <<gaugeVars, metricVars, calcVars, resolverVars, lookupVars, stateVars>>
    \/ FetchNwmV1 /\ UNCHANGED <<gaugeVars, metricVars, calcVars, resolverVars, lookupVars, stateVars>>
    \/ NwmSourceFails /\ UNCHANGED <<gaugeVars, metricVars, calcVars, resolverVars, lookupVars, stateVars>>
    \/ BuildRows /\ UNCHANGED <<gaugeVars, metricVars, calcVars, resolverVars, lookupVars, stateVars>>

SpecPipe == InitPipe /\ [][NextPipe]_vars

InitMetrics == MetricsInit /\ GaugeIdle /\ PipeIdle /\ CalcIdle /\ ResolverIdle /\ LookupIdle
    /\ StateIdle

NextMetrics ==
    \/ AddPair /\ UNCHANGED <<gaugeVars, pipeVars, calcVars, resolverVars, lookupVars, stateVars>>
    \/ CallEngine /\ UNCHANGED <<gaugeVars, pipeVars, calcVars, resolverVars, lookupVars, stateVars>>
    \/ Report /\ UNCHANGED <<gaugeVars, pipeVars, calcVars, resolverVars, lookupVars, stateVars>>

SpecMetrics == InitMetrics /\ [][NextMetrics]_vars

InitCalc == CalcInit /\ GaugeIdle /\ PipeIdle /\ MetricsIdle /\ ResolverIdle /\ LookupIdle
    /\ StateIdle

NextCalc ==
    \/ AddElement /\ UNCHANGED <<gaugeVars, pipeVars, metricVars, resolverVars, lookupVars, stateVars>>
    \/ Calculate /\ UNCHANGED <<gaugeVars, pipeVars, metricVars, resolverVars, lookupVars, stateVars>>

SpecCalc == InitCalc /\ [][NextCalc]_vars

InitResolver == ResolverInit /\ GaugeIdle /\ PipeIdle /\ MetricsIdle /\ CalcIdle /\ LookupIdle
    /\ StateIdle

NextResolver ==
    \/ ResolveSite /\ UNCHANGED <<gaugeVars, pipeVars, metricVars, calcVars, lookupVars, stateVars>>
    \/ EndRun /\ UNCHANGED <<gaugeVars, pipeVars, metricVars, calcVars, lookupVars, stateVars>>

SpecResolver == InitResolver /\ [][NextResolver]_vars

InitLookup ==
    LookupInit /\ GaugeIdle /\ PipeIdle /\ MetricsIdle /\ CalcIdle /\ ResolverIdle
    /\ StateIdle

NextLookup ==
    \/ WorkerStarts /\ UNCHANGED <<gaugeVars, pipeVars, metricVars, calcVars, resolverVars, stateVars>>
    \/ WorkerFinishes /\ UNCHANGED <<gaugeVars, pipeVars, metricVars, calcVars, resolverVars, stateVars>>
    \/ Collect /\ UNCHANGED <<gaugeVars, pipeVars, metricVars, calcVars, resolverVars, stateVars>>
    \/ ReturnMapping /\ UNCHANGED <<gaugeVars, pipeVars, metricVars, calcVars, resolverVars, stateVars>>

SpecLookup == InitLookup /\ [][NextLookup]_vars

InitState ==
    StateInit /\ GaugeIdle /\ PipeIdle /\ MetricsIdle /\ CalcIdle /\ ResolverIdle
    /\ LookupIdle

NextState ==
    ClassifyPoint
    /\ UNCHANGED <<gaugeVars, pipeVars, metricVars, calcVars, resolverVars, lookupVars>>

SpecState == InitState /\ [][NextState]_vars

-----------------------------------------------------------------------------
(* Claims about the gauge fetch routines *)

\* C1: every gauge value that fetch_usgs_daily, state_validation.fetch_usgs_batch
\* or three_way_validation.fetch_usgs_data holds for the requested date was
\* reported by the source with that date (a value of another date is discarded).
C1_ReturnedValuesAreOfRequestedDate ==
    /\ routine \in {"fetch_usgs_batch", "fetch_usgs_data"}
         => \A s \in DOMAIN results : reported[s] = date
    /\ routine = "fetch_usgs_daily"
         => \A k \in 1..Len(all_data) : all_data[k].date = date

\* C25: in the gauge fetch routines a malformed entry of one station neither
\* makes the fetch raise nor keeps the entries after it in the same response
\* from being visited (and so recorded).
C25_MalformedEntryIsIsolated == gpc # "raised" /\ ~unread

\* the chunks requested so far are the first chunks of the list, in order,
\* and once the loop has ended every position of the list lies in exactly one
\* requested chunk
ChunksInOrder ==
    /\ \A k \in 1..Len(requested) : requested[k] = (k - 1) * batch_size
    /\ gpc = "done" =>
          \A p \in 1..Len(site_list) :
              Cardinality({k \in 1..Len(requested) :
                              requested[k] < p /\ p <= requested[k] + batch_size}) = 1

\* a step keeps the records gathered before it
RecordsKept ==
    /\ Len(all_data) <= Len(all_data')
    /\ SubSeq(all_data', 1, Len(all_data)) = all_data

\* C28: fetch_usgs_daily requests the site ids in consecutive chunks of at
\* most chunk_size, each id in exactly one chunk and the chunks in order; a
\* chunk whose request fails is skipped alone (the records of earlier chunks
\* are kept, the later chunks are still requested); and the call always
\* returns its table, it never raises.
C28_ChunksAndTableAlways ==
    /\ [](routine = "fetch_usgs_daily" => (ChunksInOrder /\ gpc # "raised"))
    /\ [][routine = "fetch_usgs_daily" => RecordsKept]_vars

\* C3: in state_validation_v2.fetch_usgs_batch every station in the result maps
\* to a flow >= 0 that the source reported with the requested date, whatever
\* responses the batches received.
C3_V2ResultsAreOfRequestedDate ==
    routine = "fetch_usgs_batch_v2"
      => \A s \in DOMAIN results : reported[s] = date /\ results[s] >= 0

\* C3 witness: the v2 routine has returned after two batches, each of which
\* entered a station.
C3_Witness ==
    /\ routine = "fetch_usgs_batch_v2"
    /\ gpc = "done"
    /\ Len(requested) = 2
    /\ \E s \in DOMAIN results : s <= batch_size
    /\ \E s \in DOMAIN results : s > batch_size

-----------------------------------------------------------------------------
(* Claims about the comparison tables *)

Saved == outcome = "saved"

\* C2: for a run with target date D, every value in a saved comparison row
\* is a value for D: the reach-model value of fetch_nwm_data and of
\* fetch_nwm_from_db, and the model value of run_validation and
\* run_three_way_validation.
C2_RowValuesAreOfTargetDate ==
    (Saved /\ pipeline \in {"three_way_validation", "run_validation",
                              "run_three_way_validation"})
      => \A k \in 1..Len(rows) :
            /\ rows[k].model_day # None => rows[k].model_day[1] = target_date
            /\ rows[k].nwm # None => rows[k].nwm[1].day = target_date

\* C4: in state_validation_v2.main and run_three_way_validation the
\* reach-model value of a row is the one found under the reach id the mapping
\* resolves the site to, and missing when the mapping does not resolve it.
C4_NwmOnlyByResolvedReach ==
    (Saved /\ pipeline \in {"state_validation_v2", "run_three_way_validation"})
      => \A k \in 1..Len(rows) :
            rows[k].nwm = IF rows[k].site_id \in DOMAIN comid_mapping
                          THEN Get(nwm_data, comid_mapping[rows[k].site_id])
                          ELSE None

\* a saved row of a site the mapping does not resolve, whose gauge id is
\* also a key of the reach-model data
C4_Witness ==
    /\ Saved /\ pipeline = "state_validation_v2"
    /\ \E k \in 1..Len(rows) :
         /\ rows[k].site_id \notin DOMAIN comid_mapping
         /\ rows[k].site_id \in DOMAIN nwm_data
         /\ rows[k].nwm = None

\* C5: a reach-model value in a row is its raw value times 35.3147 when the
\* raw value was in cms, and the raw value itself when it was in cfs.
C5_FactorAppliedOnce ==
    \A k \in 1..Len(rows) :
        rows[k].nwm # None =>
            LET v == rows[k].nwm[1] IN
            /\ v.unit = "cms" => v.cfs = v.raw * CMS_TO_CFS
            /\ v.unit = "cfs" => v.cfs = v.raw

\* a saved table of three_way_validation that holds a value read in cms
\* beside a value read in cfs
C5_Witness ==
    /\ Saved /\ pipeline = "three_way_validation"
    /\ \E j, k \in 1..Len(rows) :
         /\ rows[j].nwm # None /\ rows[j].nwm[1].unit = "cms"
         /\ rows[k].nwm # None /\ rows[k].nwm[1].unit = "cfs"

\* C6: the saved table of state_validation.main and state_validation_v2.main
\* has a row for every site with a prediction or a gauge value.
C6_RowForEverySiteWithAValue ==
    (Saved /\ pipeline \in {"state_validation", "state_validation_v2"})
      => \A s \in 1..Len(Sites) :
            (Sites[s].uuid \in DOMAIN hpp_daily \/ Sites[s].site_id \in DOMAIN usgs_data)
              => \E k \in 1..Len(rows) : rows[k].uuid = Sites[s].uuid

\* C7: no row of the table run_three_way_validation saves has its model,
\* gauge and reach-model values all missing.
C7_NoRowWithoutAnyValue ==
    (Saved /\ pipeline = "run_three_way_validation")
      => \A k \in 1..Len(rows) :
            ~(rows[k].model = None /\ rows[k].usgs = None /\ rows[k].nwm = None)

\* C8: the table run_validation or run_three_way_validation saves has at
\* most one row per site.
C8_AtMostOneRowPerSite ==
    (Saved /\ pipeline \in {"run_validation", "run_three_way_validation"})
      => \A j, k \in 1..Len(rows) : rows[j].uuid = rows[k].uuid => j = k

-----------------------------------------------------------------------------
(* Claims about the metrics engine and its callers *)

\* the pairs of the table with both values strictly positive
PositivePairs == Cardinality({k \in 1..Len(frame) : frame[k].usgs_cfs > 0 /\ frame[k].hpp_cfs > 0})

EngineCalled == mpc \in {"called", "reported", "crashed"} /\ caller # "run_validation"

\* C9: compute_metrics returns None exactly when fewer than the floor of
\* pairs (5 in the state scripts, 10 in three_way_validation) have both
\* values strictly positive, and otherwise a result with every statistic.
C9_NoneExactlyBelowFloor ==
    EngineCalled =>
        LET floor == IF caller = "three_way_validation.main" THEN FLOOR_THREE_WAY
                     ELSE FLOOR_STATE
            keys == IF caller = "three_way_validation.main" THEN KEYS_THREE_WAY
                    ELSE KEYS_STATE
        IN  /\ metrics = None <=> PositivePairs < floor
            /\ metrics # None => DOMAIN metrics[1] = keys /\ metrics[1].n = PositivePairs

\* three_way_validation's engine at its floor: ten positive pairs beside a
\* pair with a zero flow, and a full result
C9_Witness ==
    /\ caller = "three_way_validation.main" /\ mpc = "called"
    /\ PositivePairs = FLOOR_THREE_WAY /\ Len(frame) > PositivePairs
    /\ metrics # None

\* C10: no run fails by reading n or a statistic out of a result that does
\* not hold it.
C10_NoReadOfMissingStatistic == mpc # "crashed"

\* the sums over every row of the table, the rows with a zero flow included
AllPairs == Sums(Column(frame, "usgs_cfs"), Column(frame, "hpp_cfs"))

\* C11: compute_metrics computes RMSE, PBIAS and NSE over every non-missing
\* pair, pairs with a zero value included (only the log metrics leave them
\* out), and the n it reports for them is the number of those pairs.
C11_LinearMetricsOverAllPairs ==
    (EngineCalled /\ metrics # None) =>
        LET three == caller = "three_way_validation.main" IN
        /\ metrics[1].n = Len(frame)
        /\ metrics[1].rmse = IF three THEN stat_rmse(AllPairs) ELSE round(stat_rmse(AllPairs), 1)
        /\ metrics[1].pbias = IF three THEN stat_pbias(AllPairs) ELSE round(stat_pbias(AllPairs), 1)
        /\ metrics[1].nse = IF three THEN stat_nse(AllPairs) ELSE round(stat_nse(AllPairs), 3)

\* the gauge flows of the pairs with both flows > 0 are all the same
ObservedIdentical ==
    \A j, k \in 1..Len(frame) :
        (/\ frame[j].usgs_cfs > 0 /\ frame[j].hpp_cfs > 0
         /\ frame[k].usgs_cfs > 0 /\ frame[k].hpp_cfs > 0) => frame[j].usgs_cfs = frame[k].usgs_cfs

\* C14: when compute_metrics returns a result and the observed flows it is
\* computed from are all identical, nse and log_nse are None: not a number,
\* not an infinity and not a NaN.
C14_IdenticalObservedGivesNone ==
    (EngineCalled /\ metrics # None /\ ObservedIdentical) =>
        /\ metrics[1].nse = PyNone
        /\ metrics[1].log_nse = PyNone

\* C24: a reach-model source that fails entirely does not end the run: the
\* run goes on with the model and the gauge source (and saves rows whose
\* reach-model value is missing).
C24_RunSurvivesReachModelFailure == outcome # "aborted"

-----------------------------------------------------------------------------
(* Claims about validate.calculate_metrics *)

\* calculate_metrics was called and returned its statistics
Calculated == cpc = "called" /\ "r" \in DOMAIN calc[1]

\* the observed and the predicted flows of the pairs without a NaN
KeptObserved == Masked(observed_of(arrays), mask_positions(observed_of(arrays), predicted_of(arrays)))
KeptPredicted == Masked(predicted_of(arrays), mask_positions(observed_of(arrays), predicted_of(arrays)))

\* the pairs whose two flows are > 0
AlignedPositive == valid_positions(KeptObserved, KeptPredicted)

\* C12: a log_rmse that calculate_metrics reports is the one of the pairs
\* whose observed and predicted flow are both > 0, the logarithm of each
\* observed flow differenced against the predicted flow of the same pair.
C12_LogMetricOverAlignedPairs ==
    (Calculated /\ calc[1].log_rmse # PyNone) =>
        calc[1].log_rmse = round(calc_log_rmse(Pick(KeptObserved, AlignedPositive),
                                               Pick(KeptPredicted, AlignedPositive)), 4)

\* C13: calculate_metrics reports pbias_pct as None exactly when the observed
\* flows sum to 0, and nse as None exactly when the observed flows are all
\* identical; the other statistics are in the result all the same.
C13_MissingExactlyWhenUndefined ==
    Calculated =>
        /\ calc[1].pbias_pct = PyNone <=> SumSeq(KeptObserved) = 0
        /\ calc[1].nse = PyNone <=> \A j, k \in 1..Len(KeptObserved) : KeptObserved[j] = KeptObserved[k]
        /\ DOMAIN calc[1] = {"n", "r", "r2", "mae_cfs", "rmse_cfs", "log_rmse", "pbias_pct", "nse", "kge"}

\* C15: calculate_metrics reports a number as kge only when the r it reports
\* is a number too; with r undefined, kge is None.
C15_KgeOnlyWithCorrelation ==
    Calculated => (calc[1].r = PyNone => calc[1].kge = PyNone)

\* the number of values a list of flows takes
Distinct(q) == Cardinality({q[k] : k \in 1..Len(q)})

\* C16: the n that calculate_metrics returns is the number of pairs in which
\* neither flow is NaN, the pairs with a zero or a negative flow included, and
\* r is a number whenever the observed and the predicted flows of those pairs
\* each take two values or more.
C16_ZerosKeptForLinearMetrics ==
    cpc = "called" =>
        /\ calc[1].n = Cardinality({k \in 1..Len(arrays) : arrays[k][1] # None /\ arrays[k][2] # None})
        /\ (Calculated /\ Distinct(KeptObserved) >= 2 /\ Distinct(KeptPredicted) >= 2)
              => calc[1].r # PyNone

\* a call with a zero observed flow and a NaN, the first counted in n and the
\* second not, and r reported
C16_Witness ==
    /\ Calculated
    /\ \E k \in 1..Len(arrays) : arrays[k][1] = Some(0)
    /\ \E k \in 1..Len(arrays) : arrays[k][1] = None
    /\ calc[1].n = Len(arrays) - 1
    /\ Distinct(KeptObserved) >= 2 /\ Distinct(KeptPredicted) >= 2
    /\ calc[1].r # PyNone

\* predicted equals observed element by element, no NaN among them
PerfectPrediction == \A k \in 1..Len(arrays) : arrays[k][1] # None /\ arrays[k][2] = arrays[k][1]

\* C17: for a prediction equal to the observation element by element, with 2
\* pairs or more, observed flows not all identical and of a sum other than 0,
\* calculate_metrics returns r = 1.0, nse = 1.0, rmse_cfs = 0 and pbias_pct = 0.
C17_PerfectPrediction ==
    (/\ cpc = "called" /\ PerfectPrediction /\ Len(arrays) >= 2
     /\ Distinct(KeptObserved) >= 2 /\ SumSeq(KeptObserved) # 0) =>
        /\ Calculated
        /\ calc[1].r = Frac(1, 1)
        /\ calc[1].nse = Frac(1, 1)
        /\ calc[1].rmse_cfs = Frac(0, 1)
        /\ calc[1].pbias_pct = Frac(0, 1)

\* a perfect prediction of three flows, two of them different, was scored
C17_Witness ==
    /\ Calculated /\ PerfectPrediction /\ Len(arrays) = 3
    /\ Distinct(KeptObserved) >= 2 /\ SumSeq(KeptObserved) # 0
    /\ calc[1].nse = Frac(1, 1)

\* the offset of the first prediction over its observation, in tenths of a cfs
Offset == arrays[1][2][1] - arrays[1][1][1]

\* predicted = observed + c element by element for a constant c > 0, the
\* observed flows not all identical and of a sum > 0
ConstantOffset ==
    /\ cpc = "called" /\ arrays # <<>>
    /\ \A k \in 1..Len(arrays) : arrays[k][1] # None /\ arrays[k][2] # None
    /\ \A k \in 1..Len(arrays) : arrays[k][2][1] - arrays[k][1][1] = Offset
    /\ Offset > 0
    /\ Distinct(KeptObserved) >= 2 /\ SumSeq(KeptObserved) > 0

-----------------------------------------------------------------------------
(* Claims about the resolvers *)

\* the reaches within 500 m of a site
WithinRadius(site) == {e \in site.near : dist_m2(e) < RADIUS_DM * RADIUS_DM}

\* C19: build_crosswalk records a match for a site exactly when a reach lies
\* within 500 m of it, the reach recorded is one of the least distance in
\* metres among those, and a site without a match is in the list failed.
C19_MatchIffReachWithinRadius ==
    resolver = "build_crosswalk" =>
        \A j \in 1..Len(runs), k \in 1..Len(points) :
            LET site == points[k]
                run == runs[j]
            IN  (~run.raised /\ \A o \in 1..Len(points) : o # k => points[o].site_id # site.site_id) =>
                /\ site.site_id[1] \in DOMAIN run.mapping <=> WithinRadius(site) # {}
                /\ site.site_id[1] \in DOMAIN run.mapping =>
                      \E e \in WithinRadius(site) :
                          /\ e.comid = run.mapping[site.site_id[1]]
                          /\ \A o \in WithinRadius(site) : dist_m2(e) <= dist_m2(o)
                /\ site.site_id[1] \notin DOMAIN run.mapping =>
                      \E f \in 1..Len(run.failed) : run.failed[f] = site.site_id[1]

\* C20: two runs of a resolver on the same sites, the same radius and the
\* same reaches return the same reach for every site, equidistant reaches
\* included.
C20_SameReachOnEveryRun ==
    Len(runs) = 2 => runs[1] = runs[2]

\* every site has a site_id of its own
DistinctSiteIds ==
    \A j, k \in 1..Len(points) :
        points[j].site_id # None /\ (j # k => points[j].site_id # points[k].site_id)

\* the comids a site's query resolves it to when it raises nothing
resolutions(r, site) == {row.comid : row \in {e \in first_rows(r, site.near) : accepted(r, e)}}

\* C21: in build_crosswalk.main and match_coords_to_comid, when the query of
\* one site raises, the run still queries every site after it and resolves
\* each of them as its own query resolves it.
C21_QueryErrorAffectsOneSite ==
    (resolver \in {"build_crosswalk", "match_coords_to_comid"} /\ DistinctSiteIds) =>
        \A j \in 1..Len(runs), f, k \in 1..Len(points) :
            (points[f].fault # "none" /\ f < k) =>
                /\ ~runs[j].raised
                /\ runs[j].queried = Len(points)
                /\ IF points[k].site_id[1] \in DOMAIN runs[j].mapping
                   THEN runs[j].mapping[points[k].site_id[1]] \in resolutions(resolver, points[k])
                   ELSE resolutions(resolver, points[k]) = {}

\* no query of the catalog raises
NoFault == \A k \in 1..Len(points) : points[k].fault = "none"

\* C27: the reach three_way_validation.main uses for a site is the one
\* build_crosswalk resolved from that site's coordinates: a match stored for a
\* gauged feature is found under the key three_way_validation looks the
\* feature up by (its UUID), and what is found under that key is a reach
\* resolved from the coordinates of that feature.
C27_LookupKeyIsStoredKey ==
    (resolver = "build_crosswalk" /\ DistinctSiteIds /\ NoFault) =>
        \A j \in 1..Len(runs), k \in 1..Len(points) :
            LET crosswalk == runs[j].mapping
                uuid_to_site == uuid_to_site_of(points)
                valid_uuids == Range(valid_uuids_of(crosswalk, uuid_to_site))
                uuid == points[k].UUID
            IN  /\ points[k].site_id[1] \in DOMAIN crosswalk => uuid \in valid_uuids
                /\ uuid \in valid_uuids => crosswalk[uuid] \in resolutions(resolver, points[k])

\* C29: when build_crosswalk.main has processed every feature, the site of
\* each feature is in exactly one of crosswalk and failed, and the numbers
\* printed as Matched and Failed add up to the number of features, whatever
\* the catalog (features sharing a site_id or having none included).
C29_MatchedPlusFailedIsAll ==
    (resolver = "build_crosswalk" /\ NoFault) =>
        \A j \in 1..Len(runs) :
            LET run == runs[j] IN
            /\ ~run.raised
            /\ \A k \in 1..Len(points) :
                  points[k].site_id[1] \in DOMAIN run.mapping
                      <=> ~(\E f \in 1..Len(run.failed) : run.failed[f] = points[k].site_id[1])
            /\ Cardinality(DOMAIN run.mapping) + Len(run.failed) = Len(points)

-----------------------------------------------------------------------------
(* Claims about the lookups of the identifier service *)

\* the site ids of the list
LookedUp == {usgs_site_ids[k] : k \in 1..Len(usgs_site_ids)}

\* the lookups that raise, time out, return another status than 200 or carry
\* no comid
FailedLookups ==
    {id \in LookedUp : nldi[id].kind \in {"raises", "timeout", "status404", "no_features", "no_comid"}}

\* C22: in fetch_nwm_archive.map_usgs_to_comid no exception leaves the call;
\* it returns when every lookup has finished, without an entry for a site
\* whose lookup raised, timed out, had a status other than 200 or carried no
\* comid, and with the comid of every site whose lookup carried one.
C22_FailedLookupIsIsolated ==
    /\ lpc # "raised"
    /\ lpc = "returned" =>
          /\ \A k \in 1..Len(futures) : futures[k].state = "done"
          /\ \A id \in FailedLookups : id \notin DOMAIN site_comid
          /\ \A id \in LookedUp :
                (nldi[id].kind = "comid" /\ nldi[id].text = "101") =>
                    id \in DOMAIN site_comid /\ site_comid[id] = 101

\* a call returned with one site's lookup raised and the other site mapped
C22_Witness ==
    /\ lpc = "returned"
    /\ \E a, b \in LookedUp :
         /\ nldi[a].kind = "raises"
         /\ a \notin DOMAIN site_comid
         /\ b \in DOMAIN site_comid /\ site_comid[b] = 101

\* the mapping that the responses alone fix: the sites of the list whose
\* response carries a comid that is a number other than 0
MappingOfResponses ==
    [id \in {x \in LookedUp : nldi[x].kind = "comid" /\ int_of(nldi[x].text) \notin {None, Some(0)}}
        |-> int_of(nldi[id].text)[1]]

\* C23: whatever the order in which the lookups complete and the size of the
\* pool, map_usgs_to_comid returns the mapping the responses fix; and the
\* mapping changes only in a step of the collecting loop, by the result of the
\* one future that step takes, never in a worker's step.
C23_MappingIndependentOfCompletionOrder ==
    /\ [](lpc = "returned" => site_comid = MappingOfResponses)
    /\ [][site_comid' # site_comid =>
            (Cardinality(collected') = Cardinality(collected) + 1 /\ futures' = futures)]_vars

\* the second lookup of the list completed and was collected while the first
\* was still running
C23_Witness ==
    /\ max_workers = 2 /\ Len(usgs_site_ids) = 2
    /\ futures[1].state = "running" /\ collected = {2}
    /\ usgs_site_ids[2] \in DOMAIN site_comid

\* the boxes whose branch condition the point satisfies
BoxesOfPoint == {b \in DOMAIN StateBoxes : satisfies_box(b, coords[1], coords[2])}

\* C26: every call of get_state returns one label of TX, CA, NC, Other; the
\* label is Other for a point in no box, the edges of the boxes included, and
\* the box's name for a point in a box; no point satisfies two boxes; a
\* repeated call returns the same label; and the copies in state_validation
\* and state_validation_v2 return the same label.
C26_OneLabelPerPoint ==
    \A k \in 1..Len(labels) :
        /\ labels[k].v1 \in {"TX", "CA", "NC", "Other"}
        /\ Cardinality(BoxesOfPoint) <= 1
        /\ BoxesOfPoint = {} => labels[k].v1 = "Other"
        /\ \A b \in BoxesOfPoint : labels[k].v1 = b
        /\ labels[k] = labels[1]
        /\ labels[k].v2 = labels[k].v1

\* a point on the west edge of the TX box was classified twice
C26_Witness ==
    /\ coords = <<-107, 31>> /\ Len(labels) = 2
    /\ labels[2].v1 = "Other"

\* C30: the mapping the parallel map_usgs_to_comid returns is the mapping the
\* sequential map_usgs_to_nwm_comid returns for the same list of site ids and
\* the same responses.
C30_ParallelEqualsSequential ==
    lpc = "returned" => site_comid = map_usgs_to_nwm_comid(usgs_site_ids, nldi)

====
